---- MODULE Spec2Model ----
(***************************************************************************)
(* A model of the UML -> UM-32 compiler (compiler/compiler.py,             *)
(* compiler/instructions.py, compiler/ast.py) together with the UM machine  *)
(* the emitted words run on.                                               *)
(*                                                                         *)
(* Part 1  32-bit words, set_bits, the native instruction encoding         *)
(* Part 2  the pseudo-instructions and their native expansion              *)
(* Part 3  the register allocator, the static allocations and codegen      *)
(* Part 4  the bootstrap writer and compile_ast                            *)
(* Part 5  the UM machine                                                  *)
(* Part 6  the state machines: SpecCodegen (compile time), Spec (run time) *)
(* Part 7  the properties                                                  *)
(***************************************************************************)
EXTENDS Integers, Sequences, FiniteSets, TLC

(***************************************************************************)
(* Part 1.  Words.                                                         *)
(*                                                                         *)
(* TLC's integers are 32-bit signed, the machine's words are 32-bit        *)
(* unsigned.  A word (and every compile-time Python int that may not fit   *)
(* in 31 bits) is a pair <<h, l>> standing for h * 2^25 + l, with          *)
(* 0 <= l < 2^25.  For a machine word 0 <= h < 2^7.  The split is the one   *)
(* of the Orthography instruction: l is its 25-bit value field.            *)
(***************************************************************************)

\* Orthography.max_value = 2 ** 25 - 1
OrthMax == 33554431

\* 2^25: the base of the pair representation.
Lo == OrthMax + 1

\* 2^7: h of a 32-bit word is below it.
Hi == 4 * 32

\* runtime_constants.STACK_SIZE = 2 ** 10
STACK_SIZE == 1024

\* runtime_constants.Register
ax == 0
bx == 1
cx == 2
dx == 3
locals == 4
pic_table == 5
stack == 6
stack_top == 7

\* The pair of a small non-negative integer.
W(n) == << n \div Lo, n % Lo >>

\* The integer of a pair that fits in 31 bits.
N(w) == w[1] * Lo + w[2]

WLeq(a, b) == a[1] < b[1] \/ (a[1] = b[1] /\ a[2] <= b[2])

\* a + b modulo 2^32 (the machine's Addition).
WAdd(a, b) ==
    LET l == a[2] + b[2]
    IN  << (a[1] + b[1] + (l \div Lo)) % Hi, l % Lo >>

\* a - b for a >= b (Python's int subtraction; never negative where used).
WSub(a, b) ==
    IF a[2] >= b[2] THEN << a[1] - b[1], a[2] - b[2] >>
    ELSE << a[1] - b[1] - 1, a[2] + Lo - b[2] >>

\* (~w + 1 + (1 << 32)) % (1 << 32): the two's complement of w.
WNeg(w) == WAdd(<< (Hi - 1) - w[1], (Lo - 1) - w[2] >>, <<0, 1>>)

RECURSIVE Pow2(_)
Pow2(k) == IF k = 0 THEN 1 ELSE 2 * Pow2(k - 1)

\* Bitwise and / or of two naturals below 2^31.
RECURSIVE BitAnd(_, _)
BitAnd(x, y) ==
    IF x = 0 \/ y = 0 THEN 0
    ELSE (x % 2) * (y % 2) + 2 * BitAnd(x \div 2, y \div 2)

RECURSIVE BitOr(_, _)
BitOr(x, y) ==
    IF x = 0 THEN y
    ELSE IF y = 0 THEN x
    ELSE (IF x % 2 = 1 \/ y % 2 = 1 THEN 1 ELSE 0) + 2 * BitOr(x \div 2, y \div 2)

\* x & ~m for naturals: the bits of x that are not bits of m.
BitClear(x, m) == x - BitAnd(x, m)

\* value << start as a pair, for 0 <= value < 2^25 and 0 <= start < 32.
ShiftLeft(value, start) ==
    IF start >= 25 THEN << value * Pow2(start - 25), 0 >>
    ELSE LET cut == Pow2(25 - start)
         IN  << value \div cut, (value % cut) * Pow2(start) >>

(***************************************************************************)
(* set_bits(n, start, count, value):                                       *)
(*     mask = ~(((1 << count) - 1) << start)                               *)
(*     return (n & mask) | (value << start)                                *)
(* n is a pair, value a natural below 2^25.  Nothing truncates value to    *)
(* count bits: its excess bits are or-ed into the bits above the field.    *)
(***************************************************************************)
set_bits(n, start, count, value) ==
    LET field == ShiftLeft(Pow2(count) - 1, start)
        v == ShiftLeft(value, start)
    IN  << BitOr(BitClear(n[1], field[1]), v[1]),
           BitOr(BitClear(n[2], field[2]), v[2]) >>

(***************************************************************************)
(* Native instructions.  A standard instruction (opcodes 0..12) is         *)
(* [opcode, a, b, c]; an Orthography is [opcode |-> 13, register, value].  *)
(* The constructors keep the argument order of the classes.                *)
(***************************************************************************)
Instruction(opcode, a, b, c) == [opcode |-> opcode, a |-> a, b |-> b, c |-> c]

ConditionalMove(a, b, c) == Instruction(0, a, b, c)
ArrayIndex(a, b, c) == Instruction(1, a, b, c)
ArrayAmmendment(a, b, c) == Instruction(2, a, b, c)
Addition(a, b, c) == Instruction(3, a, b, c)
Multiplication(a, b, c) == Instruction(4, a, b, c)
Division(a, b, c) == Instruction(5, a, b, c)
NotAnd(a, b, c) == Instruction(6, a, b, c)
Halt == Instruction(7, 0, 0, 0)
Allocation(result, size) == Instruction(8, 0, result, size)
Abandonment(register) == Instruction(9, 0, 0, register)
Output(register) == Instruction(10, 0, 0, register)
LoadProgram(program, ip) == Instruction(12, 0, program, ip)

\* Orthography(register, value); value is a natural (the constructor
\* raises for value > max_value, see OrthographyOk).
Orthography(register, value) ==
    [opcode |-> 13, register |-> register, value |-> value]

OrthographyOk(value) == value <= OrthMax

\* raw_instruction with B laid at bit 6 and A at bit 3.
raw_instruction_b_before_a(instr) ==
    IF instr.opcode = 13
    THEN set_bits(set_bits(set_bits(<<0, 0>>, 28, 4, instr.opcode),
                           25, 3, instr.register),
                  0, 25, instr.value)
    ELSE set_bits(set_bits(set_bits(set_bits(<<0, 0>>, 28, 4, instr.opcode),
                                    6, 3, instr.b),
                           3, 3, instr.a),
                  0, 3, instr.c)

\* Instruction.bytes / Orthography.bytes before to_bytes: the 32-bit word.
raw_instruction(instr) ==
    IF instr.opcode = 13
    THEN set_bits(set_bits(set_bits(<<0, 0>>, 28, 4, instr.opcode),
                           25, 3, instr.register),
                  0, 25, instr.value)
    ELSE set_bits(set_bits(set_bits(set_bits(<<0, 0>>, 28, 4, instr.opcode),
                                    6, 3, instr.a),
                           3, 3, instr.b),
                  0, 3, instr.c)

(***************************************************************************)
(* Part 2.  Pseudo-instructions: each is the sequence of native            *)
(* instructions its low_level_instructions() yields.                       *)
(***************************************************************************)

(***************************************************************************)
(* Immediate.low_level_instructions.  For value > max_value the code is    *)
(*     yield Orthography(register, max); value -= max                      *)
(*     while value > max:                                                  *)
(*         yield Orthography(acc, max); yield Addition(register, register, *)
(*         acc); value -= max                                              *)
(*     if value: yield Orthography(acc, value); yield Addition(...)        *)
(* The loop runs ImmediateLoops(value) times and leaves ImmediateRest,     *)
(* computed here without iterating: with value = h * 2^25 + l and          *)
(* max = 2^25 - 1, value - max - 1 = (h - 1) * max + (h - 1 + l).          *)
(***************************************************************************)
ImmediateLoops(value) == (value[1] - 1) + ((value[1] - 1 + value[2]) \div OrthMax)

ImmediateRest(value) == ((value[1] - 1 + value[2]) % OrthMax) + 1

\* The accumulator is the register itself.
ImmediateAcc_is_register(register) == register

\* acc = Register.bx if register != Register.bx else Register.ax
ImmediateAcc(register) == IF register # bx THEN bx ELSE ax

\* The expansion with the accumulator register acc.
low_level_instructions(register, value, acc) ==
    IF WLeq(value, <<0, OrthMax>>)
    THEN << Orthography(register, value[2]) >>
    ELSE LET k == ImmediateLoops(value)
             rest == ImmediateRest(value)
         IN  [i \in 1..(2 * k + 3) |->
                IF i = 1 THEN Orthography(register, OrthMax)
                ELSE IF i % 2 = 1 THEN Addition(register, register, acc)
                ELSE IF i = 2 * k + 2 THEN Orthography(acc, rest)
                ELSE Orthography(acc, OrthMax)]

Immediate(register, value) ==
    low_level_instructions(register, value, ImmediateAcc(register))

AddImmediate(register, literal, accumulator_register) ==
    Immediate(accumulator_register, literal)
        \o << Addition(register, register, accumulator_register) >>

SubImmediate(register, literal, accumulator_register) ==
    Immediate(accumulator_register, WNeg(literal))
        \o << Addition(register, register, accumulator_register) >>

(***************************************************************************)
(* Push and Pop (section 4.6 of the specification; the classes are not in  *)
(* instructions.py).  Push R stores R at STACK[STACK_TOP] and increments   *)
(* STACK_TOP; Pop R adds 2^32 - 1 to STACK_TOP and reads STACK[STACK_TOP]. *)
(* Their scratch registers are scoped registers of the allocator they are  *)
(* constructed with: tmp, and for the large immediate of Pop a second one, *)
(* acc.  Push is three native instructions, which is what the resume       *)
(* address of _call (ret_address + 6) counts on.                           *)
(***************************************************************************)
Push(register, tmp) ==
    << ArrayAmmendment(stack, stack_top, register) >>
        \o low_level_instructions(tmp, <<0, 1>>, tmp)
        \o << Addition(stack_top, stack_top, tmp) >>

Pop(register, tmp, acc) ==
    low_level_instructions(tmp, WNeg(<<0, 1>>), acc)
        \o << Addition(stack_top, stack_top, tmp),
              ArrayIndex(register, stack, stack_top) >>

(***************************************************************************)
(* Part 3.  Codegen.                                                       *)
(*                                                                         *)
(* IR nodes are records with a field k naming the node class:              *)
(*   UIntLiteral(value)  ArrayLiteral(value)  Local/Argument(name, type)   *)
(*   Global(name, type, value)  Call(function, args, type)                 *)
(*   BuiltinCall(name, args, type)  BinOp(op, lhs, rhs)  UnOp(op, operand) *)
(*   Subscript(array, index)  Assignment(lhs, rhs)  Return(value)          *)
(*   If(test, true, false)  For(target, iterator, body)                    *)
(*   FunctionDef(name, args, locals, body, return_type)                    *)
(* uint values are pairs (Part 1).                                         *)
(*                                                                         *)
(* The generators of compiler.py run interleaved with _ll_instrs; here a   *)
(* compile state cs is threaded through them:                              *)
(*   regs    RegisterAllocator._registers (a stack, top at the end)        *)
(*   given   RegisterAllocator._given_out (source lines of occupy calls)   *)
(*   sa      Context.static_allocations, in insertion order                *)
(*   locals  Context.locals, cur  Context.current_array_address            *)
(*   out     the native instructions _ll_instrs has yielded for the        *)
(*           generator being driven; its length is _ll_instrs' ip          *)
(*   err     the exception that aborted the compilation, "" if none        *)
(*   ret     the value the last generator or occupy() returned             *)
(*   peak    the largest number of registers out at the same time          *)
(*   marks   positions in out of the call convention's steps (not part of  *)
(*           the compiler: used to state the run-time properties)          *)
(***************************************************************************)
NoneNode == [k |-> "None"]

\* Python's None where a register is expected.
None == 0 - 1

UIntLiteral(value) == [k |-> "UIntLiteral", type |-> "uint", value |-> value]
ArrayLiteral(value) == [k |-> "ArrayLiteral", type |-> "array", value |-> value]
Local(name, type) == [k |-> "Local", name |-> name, type |-> type]
Argument(name, type) == [k |-> "Argument", name |-> name, type |-> type]
Global(name, type, value) ==
    [k |-> "Global", name |-> name, type |-> type, value |-> value]
Call(function, args, type) ==
    [k |-> "Call", function |-> function, args |-> args, type |-> type]
BuiltinCall(name, args, type) ==
    [k |-> "BuiltinCall", name |-> name, args |-> args, type |-> type]
BinOp(op, lhs, rhs) ==
    [k |-> "BinOp", type |-> "uint", op |-> op, lhs |-> lhs, rhs |-> rhs]
UnOp(op, operand) ==
    [k |-> "UnOp", type |-> "uint", op |-> op, operand |-> operand]
Subscript(array, index) ==
    [k |-> "Subscript", type |-> "uint", array |-> array, index |-> index]
Assignment(lhs, rhs) == [k |-> "Assignment", lhs |-> lhs, rhs |-> rhs]
Return(value) == [k |-> "Return", value |-> value]
For(target, iterator, body) ==
    [k |-> "For", target |-> target, iterator |-> iterator, body |-> body]
If(test, true, false) ==
    [k |-> "If", test |-> test, true |-> true, false |-> false]
FunctionDef(name, args, locs, body, return_type) ==
    [k |-> "FunctionDef", name |-> name, args |-> args, locals |-> locs,
     body |-> body, return_type |-> return_type]

\* RegisterAllocator.__init__ and a Context around it.  handles[r + 1] is
\* the line at which the OccupiedRegister of register r that is out was
\* created, None when there is none.
NewContext(static_allocations) ==
    [regs |-> << ax, bx, cx, dx >>, given |-> << >>, sa |-> static_allocations,
     locals |-> << >>, cur |-> 0, out |-> << >>, err |-> "", ret |-> 0,
     peak |-> 0, marks |-> << >>, handles |-> << None, None, None, None >>]

Raise(cs, exc) == IF cs.err # "" THEN cs ELSE [cs EXCEPT !.err = exc]

(***************************************************************************)
(* RegisterAllocator.occupy: pop the last register of the pool (ValueError *)
(* if the pool is empty), append the caller's line to _given_out.          *)
(***************************************************************************)
occupy(cs, line) ==
    IF cs.err # "" THEN cs
    ELSE IF Len(cs.regs) = 0
    THEN Raise(cs, "ValueError: failed to allocate a new register")
    ELSE [cs EXCEPT !.regs = SubSeq(@, 1, Len(@) - 1),
                    !.given = Append(@, line),
                    !.ret = cs.regs[Len(cs.regs)],
                    !.handles[cs.regs[Len(cs.regs)] + 1] = line,
                    !.peak = IF 5 - Len(cs.regs) > @ THEN 5 - Len(cs.regs) ELSE @]

\* release that forgets to put the register back on the pool.
release_keeps_register(cs, register) ==
    IF cs.err # "" THEN cs
    ELSE [cs EXCEPT !.given = SubSeq(@, 1, Len(@) - 1),
                    !.handles[register + 1] = None]

(***************************************************************************)
(* OccupiedRegister.release: _given_out.pop() removes the LAST entry,      *)
(* whichever handle is released; the register goes back on the pool.       *)
(***************************************************************************)
release(cs, register) ==
    IF cs.err # "" THEN cs
    ELSE [cs EXCEPT !.given = SubSeq(@, 1, Len(@) - 1),
                    !.regs = Append(@, register),
                    !.handles[register + 1] = None]

\* One `yield` of native instructions through _ll_instrs: ip += 1 for each.
Emit(cs, instrs) == IF cs.err # "" THEN cs ELSE [cs EXCEPT !.out = @ \o instrs]

\* The scratch registers that are out of the pool.
Held(cs) == { r \in {ax, bx, cx, dx} : \A j \in 1..Len(cs.regs) : cs.regs[j] # r }

Mark(cs, tag, i, name) ==
    IF cs.err # "" THEN cs
    ELSE [cs EXCEPT !.marks =
            Append(@, [ip |-> Len(cs.out), tag |-> tag, i |-> i, name |-> name,
                       held |-> Held(cs)])]

\* Context.immediate: instrs.Immediate(register, value, self.registers).
\* The Immediate of instructions.py has no use for the allocator.  An
\* expansion that needs the accumulator is marked with the registers held
\* at that point.
immediate(cs, register, value) ==
    Emit(IF WLeq(value, <<0, OrthMax>>) THEN cs
         ELSE Mark(cs, "immediate", register, ""),
         Immediate(register, value))

\* v is computed, once, before K is applied to it: the statements of a
\* generator run one after the other on the state the previous one left.
Bind(v, K(_)) == IF v = v THEN K(v) ELSE K(v)

\* The value a generator returns, unless it raised.
SetRet(cs, r) == IF cs.err # "" THEN cs ELSE [cs EXCEPT !.ret = r]

\* Context.push / Context.pop: the expansion takes its scratch registers
\* from the allocator and gives them back.
push(cs, register) ==
    Bind(occupy(cs, 0), LAMBDA c1 :
        release(Emit(c1, Push(register, c1.ret)), c1.ret))

pop(cs, register) ==
    Bind(occupy(cs, 0), LAMBDA c1 :
    Bind(occupy(c1, 0), LAMBDA c2 :
        release(release(Emit(c2, Pop(register, c1.ret, c2.ret)), c2.ret), c1.ret)))

\* The key a node has in a dict: Node.__hash__ / __eq__ and the overrides
\* of FunctionDef, Argument, Local and Global (identity by class and name).
NodeKey(node) ==
    IF node.k \in {"FunctionDef", "Global", "Local", "Argument"}
    THEN << node.k, node.name >>
    ELSE << node.k, node.value >>

SaHas(sa, key) == \E j \in 1..Len(sa) : sa[j].key = key

SaIndex(sa, key) == sa[CHOOSE j \in 1..Len(sa) : sa[j].key = key].index

(***************************************************************************)
(* Context.static_address:                                                 *)
(*     self.static_allocations.setdefault(node, len(self.static_allocations)) *)
(***************************************************************************)
static_address(cs, node) ==
    IF cs.err # "" THEN cs
    ELSE IF SaHas(cs.sa, NodeKey(node))
    THEN [cs EXCEPT !.ret = SaIndex(cs.sa, NodeKey(node))]
    ELSE [cs EXCEPT !.ret = Len(cs.sa),
                    !.sa = Append(@, [key |-> NodeKey(node), node |-> node,
                                      index |-> Len(cs.sa)])]

\* ctx.locals[node]: the dict built by {l: n for n, l in enumerate(...)}
\* keeps the last n of equal keys.
LocalsHas(cs, node) == \E j \in 1..Len(cs.locals) : cs.locals[j] = NodeKey(node)

LocalsIndex(cs, node) ==
    (CHOOSE j \in 1..Len(cs.locals) :
        /\ cs.locals[j] = NodeKey(node)
        /\ \A i \in (j + 1)..Len(cs.locals) : cs.locals[i] # NodeKey(node)) - 1

RECURSIVE compute_into_register(_, _)
RECURSIVE compile_node(_, _)
RECURSIVE push_args(_, _, _)
RECURSIVE pop_args(_, _, _)
RECURSIVE compile_body(_, _, _, _)

\* _compute_local (Local and Argument): KeyError if the name has no slot.
compute_local(node, cs) ==
    Bind(occupy(cs, 239), LAMBDA c1 :
        IF ~LocalsHas(cs, node) THEN Raise(c1, "KeyError")
        ELSE Emit(immediate(c1, c1.ret, W(LocalsIndex(cs, node))),
                  << ArrayIndex(c1.ret, locals, c1.ret) >>))

\* _compute_global: a uint global is inlined, an array global is upserted.
compute_global(node, cs) ==
    Bind(occupy(cs, 252), LAMBDA c1 :
        IF node.type = "uint" THEN immediate(c1, c1.ret, node.value.value)
        ELSE Bind(static_address(c1, node), LAMBDA c2 :
                 SetRet(Emit(immediate(c2, c1.ret, W(c2.ret)),
                             << ArrayIndex(c1.ret, pic_table, c1.ret) >>), c1.ret)))

compute_uint_literal(node, cs) ==
    Bind(occupy(cs, 265), LAMBDA c1 : immediate(c1, c1.ret, node.value))

compute_array_literal(node, cs) ==
    Bind(occupy(cs, 272), LAMBDA c1 :
    Bind(static_address(c1, node), LAMBDA c2 :
        SetRet(Emit(immediate(c2, c1.ret, W(c2.ret)),
                    << ArrayIndex(c1.ret, pic_table, c1.ret) >>), c1.ret)))

(***************************************************************************)
(* _call, lines 161-171: save LOCALS and the handle of the running code    *)
(* array (PIC_TABLE[current_array_address]).                               *)
(***************************************************************************)
call_save(node, cs) ==
    Bind(occupy(push(Mark(cs, "call_begin", Len(node.args), node.function), locals), 164),
         LAMBDA c2 :
        release(push(Emit(immediate(c2, c2.ret, W(cs.cur)),
                          << ArrayIndex(c2.ret, pic_table, c2.ret) >>),
                     c2.ret),
                c2.ret))

\* push_args without reversed(): the arguments are pushed first to last.
RECURSIVE push_args_forward(_, _, _)
push_args_forward(args, n, cs) ==
    IF n = 0 \/ cs.err # "" THEN cs
    ELSE Bind(compute_into_register(args[Len(args) - n + 1], cs), LAMBDA c1 :
            push_args_forward(args, n - 1,
                release(push(Mark(c1, "arg_push", Len(args) - n, ""), c1.ret), c1.ret)))

\* lines 173-176: for arg in reversed(node.args):
\*                    with compute_into_register(arg) as r: push(r)
push_args(args, n, cs) ==
    IF n = 0 \/ cs.err # "" THEN cs
    ELSE Bind(compute_into_register(args[n], cs), LAMBDA c1 :
            push_args(args, n - 1,
                      release(push(Mark(c1, "arg_push", n - 1, ""), c1.ret), c1.ret)))

\* call_jump with a resume address one word short (ret_address + 5).
call_jump_short(node, cs) ==
    Bind(occupy(cs, 178), LAMBDA c1 :
    Bind(IF SaHas(c1.sa, << "FunctionDef", node.function >>)
         THEN Emit(immediate(c1, c1.ret,
                             W(SaIndex(c1.sa, << "FunctionDef", node.function >>))),
                   << ArrayIndex(c1.ret, pic_table, c1.ret) >>)
         ELSE Raise(c1, "KeyError"), LAMBDA c2 :
    Bind(occupy(c2, 191), LAMBDA c3 :
    Bind(Emit(c3, << Orthography(c3.ret, Len(c2.out) + 5) >>), LAMBDA c4 :
    Bind(push(Mark(c4, "resume_push", 0, node.function), c3.ret), LAMBDA c5 :
    Bind(Emit(c5, << Orthography(c3.ret, 0) >>), LAMBDA c6 :
        release(release(Emit(Mark(c6, "call_load", 0, node.function),
                             << LoadProgram(c1.ret, c3.ret) >>),
                        c3.ret),
                c1.ret)))))))

(***************************************************************************)
(* _call, lines 178-198: resolve the callee, push the resume address and   *)
(* jump.  ret_address is what _ll_instrs sends back for the ArrayIndex:    *)
(* the number of native instructions yielded so far, Len(c2.out).          *)
(***************************************************************************)
call_jump(node, cs) ==
    Bind(occupy(cs, 178), LAMBDA c1 :
    Bind(IF SaHas(c1.sa, << "FunctionDef", node.function >>)
         THEN Emit(immediate(c1, c1.ret,
                             W(SaIndex(c1.sa, << "FunctionDef", node.function >>))),
                   << ArrayIndex(c1.ret, pic_table, c1.ret) >>)
         ELSE Raise(c1, "KeyError"), LAMBDA c2 :
    Bind(occupy(c2, 191), LAMBDA c3 :
    Bind(Emit(c3, << Orthography(c3.ret, Len(c2.out) + 6) >>), LAMBDA c4 :
    Bind(push(Mark(c4, "resume_push", 0, node.function), c3.ret), LAMBDA c5 :
    Bind(Emit(c5, << Orthography(c3.ret, 0) >>), LAMBDA c6 :
        release(release(Emit(Mark(c6, "call_load", 0, node.function),
                             << LoadProgram(c1.ret, c3.ret) >>),
                        c3.ret),
                c1.ret)))))))

\* _call, lines 203-209: the result is read from STACK[0].
call_result(node, cs) ==
    Bind(occupy(cs, 203), LAMBDA c1 :
        SetRet(Emit(Mark(immediate(c1, c1.ret, W(0)), "result_read", 0, node.function),
                    << ArrayIndex(c1.ret, stack, c1.ret) >>), c1.ret))

\* _call
call(expr, node, cs) ==
    IF expr /\ node.type = "void" THEN Raise(cs, "AssertionError")
    ELSE Bind(call_jump(node, push_args(node.args, Len(node.args), call_save(node, cs))),
              LAMBDA c1 : IF expr THEN call_result(node, c1) ELSE c1)

\* The built-ins in expression mode (expr = TRUE) or statement mode.
putchar(expr, node, cs) ==
    Bind(compute_into_register(node.args[1], cs), LAMBDA c1 :
        release(Emit(c1, << Output(c1.ret) >>), c1.ret))

exit(expr, node, cs) == Emit(cs, << Halt >>)

len(expr, node, cs) ==
    IF ~expr THEN cs
    ELSE Bind(compute_into_register(node.args[1], cs), LAMBDA c1 :
         Bind(occupy(c1, 320), LAMBDA c2 :
             SetRet(release(Emit(immediate(c2, c2.ret, W(0)),
                                 << ArrayIndex(c1.ret, c1.ret, c2.ret) >>), c2.ret),
                    c1.ret)))

alloc(expr, node, cs) ==
    IF ~expr THEN cs
    ELSE Bind(compute_into_register(node.args[1], cs), LAMBDA c1 :
             SetRet(Emit(Mark(c1, "alloc", 0, ""), << Allocation(c1.ret, c1.ret) >>),
                    c1.ret))

free(expr, node, cs) ==
    Bind(compute_into_register(node.args[1], cs), LAMBDA c1 :
        release(Emit(c1, << Abandonment(c1.ret) >>), c1.ret))

\* _builtins[node.name](expr, node, ctx); _compute_builtin_call asserts
\* that the built-in is not void.
builtin_call(expr, node, cs) ==
    IF expr /\ node.type = "void" THEN Raise(cs, "AssertionError")
    ELSE IF node.name = "putchar" THEN putchar(expr, node, cs)
    ELSE IF node.name = "exit" THEN exit(expr, node, cs)
    ELSE IF node.name = "len" THEN len(expr, node, cs)
    ELSE IF node.name = "alloc" THEN alloc(expr, node, cs)
    ELSE IF node.name = "free" THEN free(expr, node, cs)
    ELSE Raise(cs, "NotImplementedError")

(***************************************************************************)
(* _compute_subscript.  With a literal or global index the +1 that skips   *)
(* the length word is folded (node.index.value + 1: a TypeError for a      *)
(* Global, whose value is a node); otherwise the index is computed first,  *)
(* incremented, and released after the array has been computed.            *)
(***************************************************************************)
compute_subscript(node, cs) ==
    IF node.index.k \in {"Global", "UIntLiteral"}
    THEN Bind(compute_into_register(node.array, cs), LAMBDA c1 :
         Bind(occupy(c1, 360), LAMBDA c2 :
             IF node.index.k = "Global" THEN Raise(c2, "TypeError")
             ELSE SetRet(release(Emit(immediate(c2, c2.ret, WAdd(node.index.value, W(1))),
                                      << ArrayIndex(c1.ret, c1.ret, c2.ret) >>), c2.ret),
                         c1.ret)))
    ELSE Bind(compute_into_register(node.index, cs), LAMBDA c1 :
         Bind(occupy(c1, 366), LAMBDA c2 :
         Bind(compute_into_register(node.array,
                  release(Emit(immediate(c2, c2.ret, W(1)),
                               << Addition(c1.ret, c1.ret, c2.ret) >>), c2.ret)),
              LAMBDA c3 :
             SetRet(release(Emit(c3, << ArrayIndex(c3.ret, c3.ret, c1.ret) >>), c1.ret),
                    c3.ret))))

\* _binop: only +, * and / have a native opcode here.
binop(node, cs) ==
    Bind(compute_into_register(node.lhs, cs), LAMBDA c1 :
    Bind(compute_into_register(node.rhs, c1), LAMBDA c2 :
        SetRet(release(IF node.op = "+"
                       THEN Emit(c2, << Addition(c1.ret, c1.ret, c2.ret) >>)
                       ELSE IF node.op = "*"
                       THEN Emit(c2, << Multiplication(c1.ret, c1.ret, c2.ret) >>)
                       ELSE IF node.op = "/"
                       THEN Emit(c2, << Division(c1.ret, c1.ret, c2.ret) >>)
                       ELSE Raise(c2, "NotImplementedError"),
                       c2.ret),
               c1.ret)))

compute_into_register(node, cs) ==
    IF cs.err # "" THEN cs
    ELSE IF node.k = "Call" THEN call(TRUE, node, cs)
    ELSE IF node.k \in {"Local", "Argument"} THEN compute_local(node, cs)
    ELSE IF node.k = "Global" THEN compute_global(node, cs)
    ELSE IF node.k = "UIntLiteral" THEN compute_uint_literal(node, cs)
    ELSE IF node.k = "ArrayLiteral" THEN compute_array_literal(node, cs)
    ELSE IF node.k = "BuiltinCall" THEN builtin_call(TRUE, node, cs)
    ELSE IF node.k = "Subscript" THEN compute_subscript(node, cs)
    ELSE IF node.k = "BinOp" THEN binop(node, cs)
    ELSE Raise(cs, "NotImplementedError")

assign_name(node, cs) ==
    Bind(compute_into_register(node.rhs, cs), LAMBDA c1 :
        IF c1.err = "" /\ ~LocalsHas(cs, node.lhs) THEN Raise(c1, "KeyError")
        ELSE Bind(occupy(c1, 396), LAMBDA c2 :
                 release(release(
                     Emit(immediate(c2, c2.ret, W(LocalsIndex(cs, node.lhs))),
                          << ArrayAmmendment(locals, c2.ret, c1.ret) >>),
                     c2.ret), c1.ret)))

\* _assign_subscript.  The computed-index form calls ctx.immediate(1), which
\* lacks an argument: a TypeError as soon as that line is reached.
assign_subscript(node, cs) ==
    IF node.lhs.index.k \in {"Global", "UIntLiteral"}
    THEN Bind(compute_into_register(node.lhs.array, cs), LAMBDA c1 :
         Bind(occupy(c1, 408), LAMBDA c2 :
             IF node.lhs.index.k = "Global" THEN Raise(c2, "TypeError")
             ELSE Bind(compute_into_register(node.rhs,
                           immediate(c2, c2.ret, WAdd(node.lhs.index.value, W(1)))),
                       LAMBDA c3 :
                      release(release(release(
                          Emit(c3, << ArrayAmmendment(c1.ret, c2.ret, c3.ret) >>),
                          c3.ret), c2.ret), c1.ret))))
    ELSE Bind(compute_into_register(node.lhs.array, cs), LAMBDA c1 :
         Bind(compute_into_register(node.lhs.index, c1), LAMBDA c2 :
             Raise(occupy(c2, 417), "TypeError")))

\* _assignment
assignment(node, cs) ==
    IF node.lhs.k = "Subscript" THEN assign_subscript(node, cs)
    ELSE assign_name(node, cs)

\* _compile_return: store the value in STACK[0]; nothing else is emitted.
compile_return(node, cs) ==
    IF node.value.k = "None" THEN cs
    ELSE Bind(compute_into_register(node.value, cs), LAMBDA c1 :
         Bind(occupy(c1, 218), LAMBDA c2 :
             release(release(
                 Emit(Mark(immediate(c2, c2.ret, W(0)), "ret_store", 0, ""),
                      << ArrayAmmendment(stack, c2.ret, c1.ret) >>),
                 c2.ret), c1.ret)))

\* compile_node for the statements of a body; every other node class falls
\* to the singledispatch default.
compile_node(node, cs) ==
    IF cs.err # "" THEN cs
    ELSE IF node.k = "Call" THEN call(FALSE, node, cs)
    ELSE IF node.k = "Return" THEN compile_return(node, cs)
    ELSE IF node.k = "BuiltinCall" THEN builtin_call(FALSE, node, cs)
    ELSE IF node.k = "Assignment" THEN assignment(node, cs)
    ELSE Raise(cs, "NotImplementedError")

(***************************************************************************)
(* _compile_function_def, in three pieces: the prologue (lines 108-130),   *)
(* the statements of the body (132-133) and the epilogue (135-148).        *)
(***************************************************************************)
pop_args(nargs, n, cs) ==
    IF n >= nargs \/ cs.err # "" THEN cs
    ELSE Bind(occupy(cs, 123), LAMBDA c1 :
         Bind(occupy(pop(c1, c1.ret), 125), LAMBDA c2 :
             pop_args(nargs, n + 1,
                 release(release(Emit(immediate(c2, c2.ret, W(n)),
                                      << ArrayAmmendment(locals, c2.ret, c1.ret) >>),
                                 c2.ret), c1.ret))))

\* ctx.update(locals=..., current_array_address=...) for a new body.
function_context(node, cs) ==
    [cs EXCEPT
       !.locals = [j \in 1..(Len(node.args) + Len(node.locals)) |->
                     IF j <= Len(node.args) THEN NodeKey(node.args[j])
                     ELSE NodeKey(node.locals[j - Len(node.args)])],
       !.cur = SaIndex(cs.sa, NodeKey(node)),
       !.out = << >>, !.marks = << >>]

function_prologue(node, cs) ==
    IF cs.err # "" THEN cs
    ELSE Bind(occupy(function_context(node, cs), 114), LAMBDA c1 :
         Bind(release(Emit(immediate(c1, c1.ret, W(Len(node.locals) + Len(node.args))),
                           << Allocation(locals, c1.ret) >>), c1.ret), LAMBDA c2 :
             IF Len(node.args) = 0 THEN Mark(c2, "body", 0, node.name)
             ELSE Bind(occupy(c2, 119), LAMBDA c3 :
                      Mark(release(push(pop_args(Len(node.args), 0, pop(c3, c3.ret)),
                                        c3.ret), c3.ret),
                           "body", Len(node.args), node.name))))

\* for subnode in node.body: yield from compile_node(subnode, ctx)
compile_body(body, lo, hi, cs) ==
    IF lo > hi THEN cs
    ELSE IF lo = hi THEN compile_node(body[lo], cs)
    ELSE Bind(compile_body(body, lo, (lo + hi) \div 2, cs), LAMBDA left :
             compile_body(body, ((lo + hi) \div 2) + 1, hi, left))

\* function_epilogue without the pop of the caller's LOCALS.
function_epilogue_keeps_locals(node, cs) ==
    Bind(Emit(Mark(cs, "epilogue", 0, node.name), << Abandonment(locals) >>), LAMBDA c1 :
        IF node.name = "main" THEN Emit(c1, << Halt >>)
        ELSE Bind(occupy(c1, 140), LAMBDA c2 :
             Bind(occupy(c2, 141), LAMBDA c3 :
                 release(release(
                     Emit(Mark(pop(pop(c3, c3.ret), c2.ret), "ret_load", 0, node.name),
                          << LoadProgram(c2.ret, c3.ret) >>),
                     c3.ret), c2.ret))))

function_epilogue(node, cs) ==
    Bind(Emit(Mark(cs, "epilogue", 0, node.name), << Abandonment(locals) >>), LAMBDA c1 :
        IF node.name = "main" THEN Emit(c1, << Halt >>)
        ELSE Bind(occupy(c1, 140), LAMBDA c2 :
             Bind(occupy(c2, 141), LAMBDA c3 :
                 release(release(
                     Emit(Mark(pop(pop(pop(c3, c3.ret), c2.ret), locals),
                               "ret_load", 0, node.name),
                          << LoadProgram(c2.ret, c3.ret) >>),
                     c3.ret), c2.ret))))

compile_function_def(node, cs) ==
    function_epilogue(node,
        compile_body(node.body, 1, Len(node.body), function_prologue(node, cs)))

(***************************************************************************)
(* Part 4.  compile_ast and the bootstrap writer.                          *)
(***************************************************************************)

(***************************************************************************)
(* dict(_static_allocations_without_literal_arrays(nodes)): the value of a *)
(* FunctionDef or array Global is its position n in nodes, whatever the    *)
(* other nodes are.  A key seen again keeps its place and its first node   *)
(* and takes the new value.                                                *)
(***************************************************************************)
\* dict.__setitem__ as dict(...) does it for one (node, n) pair.
SaSet(sa, node, n) ==
    IF SaHas(sa, NodeKey(node))
    THEN [j \in 1..Len(sa) |->
            IF sa[j].key = NodeKey(node) THEN [sa[j] EXCEPT !.index = n] ELSE sa[j]]
    ELSE Append(sa, [key |-> NodeKey(node), node |-> node, index |-> n])

RECURSIVE static_allocations_without_literal_arrays(_, _, _)
static_allocations_without_literal_arrays(nodes, n, sa) ==
    IF n >= Len(nodes) THEN sa
    ELSE IF \/ (nodes[n + 1].k = "Global" /\ nodes[n + 1].type = "array")
            \/ nodes[n + 1].k = "FunctionDef"
    THEN static_allocations_without_literal_arrays(nodes, n + 1,
                                                   SaSet(sa, nodes[n + 1], n))
    ELSE static_allocations_without_literal_arrays(nodes, n + 1, sa)

\* function_bodies[node] = list(_ll_instrs(compile_node(node, ctx)))
BodiesHas(bodies, key) == \E j \in 1..Len(bodies) : bodies[j].key = key

BodyOf(bodies, key) == bodies[CHOOSE j \in 1..Len(bodies) : bodies[j].key = key]

BodiesSet(bodies, body) ==
    IF BodiesHas(bodies, body.key)
    THEN [j \in 1..Len(bodies) |-> IF bodies[j].key = body.key THEN body ELSE bodies[j]]
    ELSE Append(bodies, body)

\* One compiled body: the native instructions, their words, and the marks.
FunctionBody(node, c1) ==
    [key |-> NodeKey(node), name |-> node.name, nargs |-> Len(node.args),
     code |-> c1.out,
     raw |-> << >> \o [j \in 1..Len(c1.out) |-> raw_instruction(c1.out[j])],
     marks |-> c1.marks]

RECURSIVE compile_functions(_, _, _)
compile_functions(nodes, n, st) ==
    IF n > Len(nodes) \/ st.cs.err # "" THEN st
    ELSE IF nodes[n].k # "FunctionDef" THEN compile_functions(nodes, n + 1, st)
    ELSE Bind(compile_function_def(nodes[n], st.cs), LAMBDA c1 :
         Bind(BodiesSet(st.bodies, FunctionBody(nodes[n], c1)), LAMBDA bodies :
             compile_functions(nodes, n + 1,
                               [cs |-> [c1 EXCEPT !.out = << >>, !.marks = << >>],
                                bodies |-> bodies])))

(***************************************************************************)
(* _write_static_allocations.  The bootstrap is kept as the sequence of    *)
(* instructions the generator yields, an Immediate not yet expanded:       *)
(* [ir |-> "Immediate", register, value].                                  *)
(***************************************************************************)
IRImmediate(register, value) ==
    [ir |-> "Immediate", register |-> register, value |-> value]

\* lines 435-444: PIC_TABLE, STACK, STACK_TOP
write_header(cs) ==
    Bind(occupy(cs, 435), LAMBDA c1 :
    Bind(occupy(release(Emit(c1, << IRImmediate(c1.ret, W(Len(cs.sa))),
                                    Allocation(pic_table, c1.ret) >>), c1.ret), 439),
         LAMBDA c2 :
        Emit(release(Emit(c2, << IRImmediate(c2.ret, W(STACK_SIZE)),
                                 Allocation(stack, c2.ret) >>), c2.ret),
             << IRImmediate(stack_top, W(1)) >>)))

\* lines 451-459: the words of an allocation; a Global's value is a node,
\* which has no len().
AllocationData(entry, bodies) ==
    IF entry.key[1] = "FunctionDef" THEN BodyOf(bodies, entry.key).raw
    ELSE IF entry.key[1] = "ArrayLiteral" THEN entry.node.value
    ELSE << >>

\* lines 466-475: the length word of a literal array
write_size_inline(array, data, cs) ==
    Bind(occupy(cs, 467), LAMBDA c1 :
    Bind(occupy(Emit(c1, << IRImmediate(c1.ret, W(Len(data))) >>), 469), LAMBDA c2 :
        release(release(Emit(c2, << IRImmediate(c2.ret, W(0)),
                                    ArrayAmmendment(array, c2.ret, c1.ret) >>),
                        c2.ret), c1.ret)))

\* lines 477-486: every word is loaded and stored; the two registers are
\* occupied and released around each word, so they are the same each time.
write_data(array, data, offset, cs) ==
    IF Len(data) = 0 THEN cs
    ELSE Bind(occupy(cs, 478), LAMBDA c1 :
         Bind(occupy(c1, 480), LAMBDA c2 :
             IF c2.err # "" THEN c2
             ELSE Emit(cs, [j \in 1..(3 * Len(data)) |->
                      IF j % 3 = 1 THEN IRImmediate(c1.ret, data[((j - 1) \div 3) + 1])
                      ELSE IF j % 3 = 2
                      THEN IRImmediate(c2.ret, W(((j - 1) \div 3) + offset))
                      ELSE ArrayAmmendment(array, c2.ret, c1.ret)])))

\* lines 488-495: the PIC_TABLE slot; the register of main stays occupied.
write_pic_slot(entry, array, cs) ==
    Bind(occupy(cs, 488), LAMBDA c1 :
    Bind(release(Emit(c1, << IRImmediate(c1.ret, W(entry.index)),
                             ArrayAmmendment(pic_table, c1.ret, array) >>), c1.ret),
         LAMBDA c2 :
        SetRet(IF entry.key = << "FunctionDef", "main" >> THEN c2
               ELSE release(c2, array), array)))

\* lines 450-495: one static allocation.  cs.ret is the register of the
\* array afterwards.
write_static_allocation(entry, cs, bodies) ==
    IF cs.err # "" THEN cs
    ELSE IF entry.key[1] = "Global" THEN Raise(cs, "TypeError")
    ELSE Bind(AllocationData(entry, bodies), LAMBDA data :
         Bind(IF entry.key[1] = "FunctionDef" THEN 0 ELSE 1, LAMBDA offset :
         Bind(occupy(cs, 461), LAMBDA c1 :
         Bind(occupy(c1, 462), LAMBDA c2 :
         Bind(release(Emit(c2, << IRImmediate(c2.ret, W(Len(data) + offset)),
                                  Allocation(c1.ret, c2.ret) >>), c2.ret), LAMBDA c3 :
             write_pic_slot(entry, c1.ret,
                 write_data(c1.ret, data, offset,
                     IF offset = 0 THEN c3
                     ELSE write_size_inline(c1.ret, data, c3))))))))

\* The loop of inner_write_static_allocations over static_allocations.items();
\* st.segs collects what each allocation yields, st.main is the last main.
RECURSIVE inner_write_static_allocations(_, _, _)
inner_write_static_allocations(j, st, bodies) ==
    IF j > Len(st.cs.sa) \/ st.cs.err # "" THEN st
    ELSE Bind(write_static_allocation(st.cs.sa[j], [st.cs EXCEPT !.out = << >>], bodies),
              LAMBDA c1 :
             inner_write_static_allocations(j + 1,
                 [cs |-> c1, segs |-> Append(st.segs, c1.out),
                  main |-> IF st.cs.sa[j].key = << "FunctionDef", "main" >> /\ c1.err = ""
                           THEN c1.ret ELSE st.main],
                 bodies))

\* write_footer without the test of main.
write_footer_without_check(st) ==
    IF st.cs.err # "" THEN st.cs
    ELSE Bind(occupy([st.cs EXCEPT !.out = << >>], 503), LAMBDA c1 :
             release(Emit(c1, << IRImmediate(c1.ret, W(0)),
                                 LoadProgram(IF st.main = None THEN ax ELSE st.main,
                                             c1.ret) >>), c1.ret))

\* lines 499-505
write_footer(st) ==
    IF st.cs.err # "" THEN st.cs
    ELSE IF st.main = None THEN Raise(st.cs, "SyntaxError: no main function")
    ELSE Bind(occupy([st.cs EXCEPT !.out = << >>], 503), LAMBDA c1 :
             release(Emit(c1, << IRImmediate(c1.ret, W(0)),
                                 LoadProgram(st.main, c1.ret) >>), c1.ret))

(***************************************************************************)
(* compile_ast.  The result keeps, instead of the bytes, what they are     *)
(* made of: the bootstrap in segments (header, one per static allocation,  *)
(* footer), with the function bodies, the static allocations and the       *)
(* exception if there was one.                                             *)
(***************************************************************************)
compile_ast(nodes) ==
    Bind(compile_functions(nodes, 1,
             [cs |-> NewContext(static_allocations_without_literal_arrays(nodes, 0, << >>)),
              bodies |-> << >>]), LAMBDA fs :
    Bind(write_header([fs.cs EXCEPT !.out = << >>]), LAMBDA hd :
    Bind(inner_write_static_allocations(1,
             [cs |-> hd, segs |-> << hd.out >>, main |-> None], fs.bodies), LAMBDA ws :
    Bind(write_footer(ws), LAMBDA ft :
        [err |-> ft.err, sa |-> ft.sa, bodies |-> fs.bodies,
         segs |-> IF ft.err = "" THEN Append(ws.segs, ft.out) ELSE << >>,
         regs |-> ft.regs, given |-> ft.given, peak |-> ft.peak]))))

(***************************************************************************)
(* Part 5.  The Universal Machine that runs the compiled image.            *)
(*                                                                         *)
(* A machine m is [regs, heap, live, pc, status, outp]: eight registers,   *)
(* the arrays by handle (heap[h + 1] is array h, array 0 is the program),  *)
(* the set of active handles, the execution finger, "ok" / "halt" /        *)
(* "fault", and the bytes written by Output.  A new array takes the next   *)
(* handle never used before.                                               *)
(***************************************************************************)
(***************************************************************************)
(* An array of the machine is kept as its length and its words up to the   *)
(* last one written that is not zero, [len, words]; an array that holds    *)
(* exactly the native words of a compiled function is kept as the place of *)
(* that function among the bodies, [rom |-> j].  bodies is the code         *)
(* compile_ast produced (<< >> where there is none).                       *)
(***************************************************************************)
NewArray(n) == [len |-> n, words |-> << >>]

ArrayLen(bodies, p) == IF "rom" \in DOMAIN p THEN Len(bodies[p.rom].raw) ELSE p.len

\* The word at index i < ArrayLen.
ArrayWord(bodies, p, i) ==
    IF "rom" \in DOMAIN p THEN bodies[p.rom].raw[i + 1]
    ELSE IF i < Len(p.words) THEN p.words[i + 1]
    ELSE <<0, 0>>

\* All the words of an array.
ArrayWords(bodies, p) == [i \in 1..ArrayLen(bodies, p) |-> ArrayWord(bodies, p, i - 1)]

\* The array with w at index i < ArrayLen.
ArrayPut(bodies, p, i, w) ==
    IF "rom" \in DOMAIN p
    THEN [len |-> Len(bodies[p.rom].raw),
          words |-> [bodies[p.rom].raw EXCEPT ![i + 1] = w]]
    ELSE IF i < Len(p.words) THEN [p EXCEPT !.words[i + 1] = w]
    ELSE IF w = <<0, 0>> THEN p
    ELSE IF i = Len(p.words) THEN [p EXCEPT !.words = Append(@, w)]
    ELSE [p EXCEPT !.words = @ \o [j \in 1..(i - Len(p.words)) |-> <<0, 0>>] \o << w >>]

\* The array as it is kept once its words are those of a compiled function.
IsBody(bodies, p, j) ==
    Len(bodies[j].raw) = p.len /\ bodies[j].raw = ArrayWords(bodies, p)

Sealed(bodies, p) ==
    IF "rom" \notin DOMAIN p /\ p.len > 0 /\ \E j \in 1..Len(bodies) : IsBody(bodies, p, j)
    THEN [rom |-> CHOOSE j \in 1..Len(bodies) : IsBody(bodies, p, j)]
    ELSE p

SealAll(bodies, m) ==
    [m EXCEPT !.heap = [h \in 1..Len(m.heap) |-> Sealed(bodies, m.heap[h])]]

NewMachine ==
    [regs |-> [r \in 0..7 |-> <<0, 0>>], heap |-> << NewArray(0) >>, live |-> {0},
     pc |-> 0, status |-> "ok", outp |-> << >>]

Fault(m) == [m EXCEPT !.status = "fault"]

IsArray(m, w) == w[1] = 0 /\ w[2] \in m.live

InBounds(bodies, m, a, i) ==
    IsArray(m, a) /\ i[1] = 0 /\ i[2] < ArrayLen(bodies, m.heap[a[2] + 1])

\* The four bytes of a word, least significant first, and back.
WBytes(w) ==
    << w[2] % 256, (w[2] \div 256) % 256, (w[2] \div 65536) % 256,
       (w[2] \div 16777216) + 2 * w[1] >>

FromBytes(b) ==
    << b[4] \div 2, b[1] + 256 * b[2] + 65536 * b[3] + 16777216 * (b[4] % 2) >>

\* a * b modulo 2^32, by bytes.
WMul(x, y) ==
    LET a == WBytes(x)
        b == WBytes(y)
        s1 == a[1] * b[1]
        s2 == a[1] * b[2] + a[2] * b[1] + (s1 \div 256)
        s3 == a[1] * b[3] + a[2] * b[2] + a[3] * b[1] + (s2 \div 256)
        s4 == a[1] * b[4] + a[2] * b[3] + a[3] * b[2] + a[4] * b[1] + (s3 \div 256)
    IN  FromBytes(<< s1 % 256, s2 % 256, s3 % 256, s4 % 256 >>)

\* Bit i (0..31) of a word.
WBit(w, i) ==
    IF i >= 25 THEN (w[1] \div Pow2(i - 25)) % 2 ELSE (w[2] \div Pow2(i)) % 2

\* floor(a / b) for b # 0: long division, one bit of a at a time, with the
\* quotient q and the remainder r so far (r < b, so 2 * r + 1 stays a pair).
Shifted(a, i, r) ==
    << 2 * r[1] + ((2 * r[2] + WBit(a, i)) \div Lo), (2 * r[2] + WBit(a, i)) % Lo >>

DivStep(a, b, i, s) ==
    Bind(Shifted(a, i, s.r), LAMBDA r2 :
        [q |-> WAdd(WAdd(s.q, s.q), IF WLeq(b, r2) THEN <<0, 1>> ELSE <<0, 0>>),
         r |-> IF WLeq(b, r2) THEN WSub(r2, b) ELSE r2])

\* The steps for bits hi down to lo.
RECURSIVE DivSteps(_, _, _, _, _)
DivSteps(a, b, hi, lo, s) ==
    IF hi = lo THEN DivStep(a, b, hi, s)
    ELSE Bind(DivSteps(a, b, hi, ((hi + lo) \div 2) + 1, s), LAMBDA t :
             DivSteps(a, b, (hi + lo) \div 2, lo, t))

WDiv(a, b) == DivSteps(a, b, 31, 0, [q |-> <<0, 0>>, r |-> <<0, 0>>]).q

\* ~(a & b)
WNand(x, y) ==
    LET a == WBytes(x)
        b == WBytes(y)
    IN  FromBytes([i \in 1..4 |-> 255 - BitAnd(a[i], b[i])])

SetReg(m, r, w) == [m EXCEPT !.regs[r] = w]

\* One native instruction, given as the record of Part 1.  The finger has
\* already moved past it.
ExecInstr(bodies, instr, m) ==
    LET reg == m.regs
    IN  IF m.status # "ok" THEN m
        ELSE IF instr.opcode = 13 THEN SetReg(m, instr.register, <<0, instr.value>>)
        ELSE IF instr.opcode = 0
        THEN IF reg[instr.c] # <<0, 0>> THEN SetReg(m, instr.a, reg[instr.b]) ELSE m
        ELSE IF instr.opcode = 1
        THEN IF InBounds(bodies, m, reg[instr.b], reg[instr.c])
             THEN SetReg(m, instr.a,
                         ArrayWord(bodies, m.heap[reg[instr.b][2] + 1], reg[instr.c][2]))
             ELSE Fault(m)
        ELSE IF instr.opcode = 2
        THEN IF InBounds(bodies, m, reg[instr.a], reg[instr.b])
             THEN [m EXCEPT !.heap[reg[instr.a][2] + 1] =
                               ArrayPut(bodies, @, reg[instr.b][2], reg[instr.c])]
             ELSE Fault(m)
        ELSE IF instr.opcode = 3
        THEN SetReg(m, instr.a, WAdd(reg[instr.b], reg[instr.c]))
        ELSE IF instr.opcode = 4
        THEN SetReg(m, instr.a, WMul(reg[instr.b], reg[instr.c]))
        ELSE IF instr.opcode = 5
        THEN IF reg[instr.c] = <<0, 0>> THEN Fault(m)
             ELSE SetReg(m, instr.a, WDiv(reg[instr.b], reg[instr.c]))
        ELSE IF instr.opcode = 6
        THEN SetReg(m, instr.a, WNand(reg[instr.b], reg[instr.c]))
        ELSE IF instr.opcode = 7 THEN [m EXCEPT !.status = "halt"]
        ELSE IF instr.opcode = 8
        THEN IF reg[instr.c][1] # 0 THEN Fault(m)
             ELSE [m EXCEPT !.heap = Append(@, NewArray(reg[instr.c][2])),
                            !.live = @ \cup {Len(m.heap)},
                            !.regs[instr.b] = <<0, Len(m.heap)>>]
        ELSE IF instr.opcode = 9
        THEN IF IsArray(m, reg[instr.c]) /\ reg[instr.c] # <<0, 0>>
             THEN [m EXCEPT !.live = @ \ {reg[instr.c][2]},
                            !.heap[reg[instr.c][2] + 1] = NewArray(0)]
             ELSE Fault(m)
        ELSE IF instr.opcode = 10
        THEN IF reg[instr.c][1] = 0 /\ reg[instr.c][2] <= 255
             THEN [m EXCEPT !.outp = Append(@, reg[instr.c][2])]
             ELSE Fault(m)
        ELSE IF instr.opcode = 11
        THEN SetReg(m, instr.c, << Hi - 1, Lo - 1 >>)
        ELSE IF instr.opcode = 12
        THEN IF ~IsArray(m, reg[instr.b]) \/ reg[instr.c][1] # 0 THEN Fault(m)
             ELSE [m EXCEPT !.heap[1] = m.heap[reg[instr.b][2] + 1],
                            !.pc = reg[instr.c][2]]
        ELSE Fault(m)

\* The instruction a 32-bit word encodes.
Decode(w) ==
    IF w[1] \div 8 = 13
    THEN [opcode |-> 13, register |-> w[1] % 8, value |-> w[2]]
    ELSE [opcode |-> w[1] \div 8, a |-> (w[2] \div 64) % 8,
          b |-> (w[2] \div 8) % 8, c |-> w[2] % 8]

\* Fetch, advance the finger, execute.
StepMachine(bodies, m) ==
    IF m.status # "ok" THEN m
    ELSE IF m.pc >= ArrayLen(bodies, m.heap[1]) THEN Fault(m)
    ELSE ExecInstr(bodies, Decode(ArrayWord(bodies, m.heap[1], m.pc)),
                   [m EXCEPT !.pc = m.pc + 1])

(***************************************************************************)
(* The bootstrap runs before any array 0 the compiler wrote exists: its    *)
(* instructions are taken from compile_ast's result.  An Immediate is      *)
(* executed in one piece: its expansion leaves value in register and, for  *)
(* value > max_value, the last chunk in the accumulator.                   *)
(***************************************************************************)
ExecImmediate(register, value, m) ==
    IF m.status # "ok" THEN m
    ELSE IF WLeq(value, <<0, OrthMax>>) THEN SetReg(m, register, value)
    ELSE [m EXCEPT !.regs[ImmediateAcc(register)] = <<0, ImmediateRest(value)>>,
                   !.regs[register] = << value[1] % Hi, value[2] >>]

ExecIR(bodies, item, m) ==
    IF "ir" \in DOMAIN item THEN ExecImmediate(item.register, item.value, m)
    ELSE ExecInstr(bodies, item, m)

RECURSIVE RunIR(_, _, _, _, _)
RunIR(bodies, items, lo, hi, m) ==
    IF lo > hi THEN m
    ELSE IF lo = hi THEN ExecIR(bodies, items[lo], m)
    ELSE Bind(RunIR(bodies, items, lo, (lo + hi) \div 2, m), LAMBDA left :
             RunIR(bodies, items, ((lo + hi) \div 2) + 1, hi, left))

(***************************************************************************)
(* Part 6a.  The programs that are compiled and run, as the top-level      *)
(* nodes ast.parse gives for them.  A top-level annotated assignment       *)
(* leaves its literal among the nodes (_TopLevelTranslator has no          *)
(* visit_AnnAssign, generic_visit reaches visit_Num / visit_Str /          *)
(* visit_List); the Global itself is only found where a body names it.     *)
(***************************************************************************)
U(n) == UIntLiteral(W(n))

\* def inc(n: uint) -> uint: return n + 1
\* def add(a: uint, b: uint) -> uint: return a + b
\* def zero() -> uint: return 7
\* def show(c: uint) -> void: um.putchar(c)
\* def main() -> void:
\*     x: uint = add(inc(3), zero())
\*     show(x)
ProgramCalls ==
    << FunctionDef("inc", << Argument("n", "uint") >>, << >>,
           << Return(BinOp("+", Argument("n", "uint"), U(1))) >>, "uint"),
       FunctionDef("add", << Argument("a", "uint"), Argument("b", "uint") >>, << >>,
           << Return(BinOp("+", Argument("a", "uint"), Argument("b", "uint"))) >>,
           "uint"),
       FunctionDef("zero", << >>, << >>, << Return(U(7)) >>, "uint"),
       FunctionDef("show", << Argument("c", "uint") >>, << >>,
           << BuiltinCall("putchar", << Argument("c", "uint") >>, "void") >>, "void"),
       FunctionDef("main", << >>, << Local("x", "uint") >>,
           << Assignment(Local("x", "uint"),
                  Call("add", << Call("inc", << U(3) >>, "uint"),
                                 Call("zero", << >>, "uint") >>, "uint")),
              Call("show", << Local("x", "uint") >>, "void") >>, "void") >>

\* def g() -> uint: return 7
\* def f() -> uint:
\*     return 1
\*     y: uint = g()
\* def main() -> void: um.putchar(f())
ProgramReturnFirst ==
    << FunctionDef("g", << >>, << >>, << Return(U(7)) >>, "uint"),
       FunctionDef("f", << >>, << Local("y", "uint") >>,
           << Return(U(1)),
              Assignment(Local("y", "uint"), Call("g", << >>, "uint")) >>, "uint"),
       FunctionDef("main", << >>, << >>,
           << BuiltinCall("putchar", << Call("f", << >>, "uint") >>, "void") >>,
           "void") >>

\* x: uint = 5
\* def main() -> void: um.putchar(x)
ProgramUintGlobal ==
    << U(5),
       FunctionDef("main", << >>, << >>,
           << BuiltinCall("putchar", << Global("x", "uint", U(5)) >>, "void") >>,
           "void") >>

\* x: uint = 5
\* def main() -> void: um.putchar(um.len("hi"))
ProgramGlobalAndLiteral ==
    << U(5),
       FunctionDef("main", << >>, << >>,
           << BuiltinCall("putchar",
                  << BuiltinCall("len", << ArrayLiteral(<< W(104), W(105) >>) >>,
                                 "uint") >>, "void") >>, "void") >>

\* def main() -> void:
\*     a: array = um.alloc(3)
\*     um.putchar(um.len(a))
\*     um.putchar(um.len("hi"))
ProgramAlloc ==
    << FunctionDef("main", << >>, << Local("a", "array") >>,
           << Assignment(Local("a", "array"),
                  BuiltinCall("alloc", << U(3) >>, "array")),
              BuiltinCall("putchar",
                  << BuiltinCall("len", << Local("a", "array") >>, "uint") >>, "void"),
              BuiltinCall("putchar",
                  << BuiltinCall("len", << ArrayLiteral(<< W(104), W(105) >>) >>,
                                 "uint") >>, "void") >>, "void") >>

\* x: uint = 5
\* def main() -> void:
\*     um.putchar(um.len("hi"))
\*     um.putchar(f())
\* def f() -> uint: return 7
ProgramLiteralAndCall ==
    << U(5),
       FunctionDef("main", << >>, << >>,
           << BuiltinCall("putchar",
                  << BuiltinCall("len", << ArrayLiteral(<< W(104), W(105) >>) >>,
                                 "uint") >>, "void"),
              BuiltinCall("putchar", << Call("f", << >>, "uint") >>, "void") >>,
           "void"),
       FunctionDef("f", << >>, << >>, << Return(U(7)) >>, "uint") >>

\* def f() -> uint: return 7
\* def main() -> void: um.putchar(1 + f())
ProgramAddCall ==
    << FunctionDef("f", << >>, << >>, << Return(U(7)) >>, "uint"),
       FunctionDef("main", << >>, << >>,
           << BuiltinCall("putchar",
                  << BinOp("+", U(1), Call("f", << >>, "uint")) >>, "void") >>,
           "void") >>

\* def f() -> uint: return 7
ProgramNoMain ==
    << FunctionDef("f", << >>, << >>, << Return(U(7)) >>, "uint") >>

\* def main(n: uint) -> void:
\*     um.putchar(n)
ProgramMainArgument ==
    << FunctionDef("main", << Argument("n", "uint") >>, << >>,
           << BuiltinCall("putchar", << Argument("n", "uint") >>, "void") >>,
           "void") >>

Programs ==
    << ProgramCalls, ProgramReturnFirst, ProgramUintGlobal,
       ProgramGlobalAndLiteral, ProgramAlloc, ProgramLiteralAndCall,
       ProgramAddCall, ProgramNoMain, ProgramMainArgument >>

Compiled == << >> \o [p \in 1..Len(Programs) |-> compile_ast(Programs[p])]

(***************************************************************************)
(* Part 6b.  Spec: a compiled program is loaded and run.                   *)
(*                                                                         *)
(*   prog    which program                                                 *)
(*   phase   "boot" (seg segments of the bootstrap done), "run", "done"    *)
(*   um      the machine                                                   *)
(* and, to state the properties of the call convention (no part of the     *)
(* machine):                                                               *)
(*   curFn   the function whose code is array 0 ("" for none)              *)
(*   frames  one record per call in progress: what the caller had and      *)
(*           pushed when it executed the call sequence                     *)
(*   lastRet the frame of the call that returned last                      *)
(*   arrays  the array values handed to the program, with their element    *)
(*           count: each array literal, each result of um.alloc            *)
(*   event   what the last step was                                        *)
(***************************************************************************)
VARIABLES prog, phase, seg, um, curFn, frames, lastRet, arrays, event,
          decls, ctx, at, stage, stmt, nstmts,
          probe, outcome,
          source, fe, written

\* The variables of the running program, those of the compiler at work
\* (Part 6c), those of one instruction or expression taken alone (Part 6d)
\* and those of the command line run on a source file (Part 6e).  Each
\* specification moves its own and leaves the others as they are.
rtvars == << prog, phase, seg, um, curFn, frames, lastRet, arrays, event >>

cgvars == << decls, ctx, at, stage, stmt, nstmts >>

utvars == << probe, outcome >>

fevars == << source, fe, written >>

vars == << rtvars, cgvars, utvars, fevars >>

NoProbe == [kind |-> "none"]

NoSource == [filename |-> "", body |-> << >>]

UnitsIdle == probe = NoProbe /\ outcome = NoProbe

FrontendIdle == source = NoSource /\ fe = NoProbe /\ written = FALSE

NoFrame ==
    [fn |-> "", callee |-> "", nargs |-> 0, locals |-> <<0, 0>>,
     stack_top |-> <<0, 0>>, args |-> << >>, resume |-> <<0, 0>>, loadip |-> 0,
     has_ret |-> FALSE, retval |-> <<0, 0>>, held |-> << >>]

NoEvent == [kind |-> "", name |-> "", value |-> <<0, 0>>]

\* The function of a compiled image whose native code array 0 holds.
FunctionOf(image, m) ==
    IF "rom" \in DOMAIN m.heap[1] THEN image.bodies[m.heap[1].rom].name ELSE ""

MarksOf(image, fn) ==
    IF \E j \in 1..Len(image.bodies) : image.bodies[j].name = fn
    THEN image.bodies[CHOOSE j \in 1..Len(image.bodies) :
                          image.bodies[j].name = fn].marks
    ELSE << >>

\* The marks of function fn at the finger.
MarksAt(image, fn, pc) ==
    { MarksOf(image, fn)[j] :
        j \in { i \in 1..Len(MarksOf(image, fn)) : MarksOf(image, fn)[i].ip = pc } }

HasMark(image, fn, pc, tag) == \E mk \in MarksAt(image, fn, pc) : mk.tag = tag

TheMark(image, fn, pc, tag) == CHOOSE mk \in MarksAt(image, fn, pc) : mk.tag = tag

Init ==
    /\ prog \in 1..Len(Programs)
    /\ phase = IF Compiled[prog].err = "" THEN "boot" ELSE "rejected"
    /\ seg = 0
    /\ um = NewMachine
    /\ curFn = ""
    /\ frames = << >>
    /\ lastRet = NoFrame
    /\ arrays = {}
    /\ event = NoEvent
    /\ decls = << >> /\ ctx = NewContext(<< >>) /\ at = 0
    /\ stage = "off" /\ stmt = NoneNode /\ nstmts = 0
    /\ UnitsIdle /\ FrontendIdle

\* PIC_TABLE, STACK and STACK_TOP are set up.
BootHeaderTo(m) ==
    /\ um' = m
    /\ seg' = 1
    /\ phase' = IF m.status = "ok" THEN "boot" ELSE "done"
    /\ event' = [NoEvent EXCEPT !.kind = "header"]
    /\ UNCHANGED << prog, curFn, frames, lastRet, arrays, cgvars, utvars, fevars >>

BootSegment(image, n) ==
    RunIR(image.bodies, image.segs[n], 1, Len(image.segs[n]), um)

BootHeader ==
    /\ phase = "boot" /\ seg = 0
    /\ BootHeaderTo(BootSegment(Compiled[prog], 1))

\* One static allocation is materialised and entered in PIC_TABLE; the last
\* instruction of the segment stores the handle from its register C.
BootAllocationTo(image, m) ==
    /\ seg <= Len(image.sa)
    /\ um' = m
    /\ arrays' = IF image.sa[seg].key[1] = "ArrayLiteral" /\ m.status = "ok"
                 THEN arrays \cup
                        {[handle |-> m.regs[image.segs[seg + 1][Len(image.segs[seg + 1])].c],
                          count |-> Len(image.sa[seg].node.value)]}
                 ELSE arrays
    /\ seg' = seg + 1
    /\ phase' = IF m.status = "ok" THEN "boot" ELSE "done"
    /\ event' = [NoEvent EXCEPT !.kind = "allocation"]
    /\ UNCHANGED << prog, curFn, frames, lastRet, cgvars, utvars, fevars >>

BootAllocationOf(image) ==
    /\ seg <= Len(image.sa)
    /\ BootAllocationTo(image, SealAll(image.bodies, BootSegment(image, seg + 1)))

BootAllocation ==
    /\ phase = "boot" /\ seg >= 1
    /\ BootAllocationOf(Compiled[prog])

\* main is loaded as array 0: the program starts.
BootJumpTo(image, m) ==
    /\ um' = m
    /\ seg' = seg + 1
    /\ phase' = IF m.status = "ok" THEN "run" ELSE "done"
    /\ curFn' = FunctionOf(image, m)
    /\ event' = [NoEvent EXCEPT !.kind = "booted"]
    /\ UNCHANGED << prog, frames, lastRet, arrays, cgvars, utvars, fevars >>

BootJumpOf(image) ==
    /\ seg = Len(image.sa) + 1
    /\ BootJumpTo(image, BootSegment(image, seg + 1))

BootJump ==
    /\ phase = "boot"
    /\ BootJumpOf(Compiled[prog])

(***************************************************************************)
(* One native word of array 0 is executed.  The records of the calls in    *)
(* progress follow the marks codegen left at the steps of the convention:  *)
(* each operator below is what one mark adds to the records fs when the    *)
(* instruction instr at pc is about to execute; ms is the set of marks at  *)
(* pc in the running function.                                             *)
(***************************************************************************)
Top(fs) == fs[Len(fs)]

SetTop(fs, fr) == [fs EXCEPT ![Len(fs)] = fr]

Has(ms, tag) == \E mk \in ms : mk.tag = tag

The(ms, tag) == CHOOSE mk \in ms : mk.tag = tag

AtCallBegin(fs, ms) ==
    IF Has(ms, "call_begin")
    THEN Append(fs, [NoFrame EXCEPT !.fn = curFn,
                                    !.callee = The(ms, "call_begin").name,
                                    !.nargs = The(ms, "call_begin").i,
                                    !.locals = um.regs[locals],
                                    !.stack_top = um.regs[stack_top],
                                    !.held = [r \in The(ms, "call_begin").held |->
                                                um.regs[r]],
                                    !.args = [j \in 1..The(ms, "call_begin").i |-> <<0, 0>>]])
    ELSE fs

AtArgPush(fs, ms, instr) ==
    IF Has(ms, "arg_push") /\ fs # << >>
    THEN SetTop(fs, [Top(fs) EXCEPT !.args[The(ms, "arg_push").i + 1] = um.regs[instr.c]])
    ELSE fs

AtResumePush(fs, ms, instr) ==
    IF Has(ms, "resume_push") /\ fs # << >>
    THEN SetTop(fs, [Top(fs) EXCEPT !.resume = um.regs[instr.c]])
    ELSE fs

AtCallLoad(fs, ms, pc) ==
    IF Has(ms, "call_load") /\ fs # << >>
    THEN SetTop(fs, [Top(fs) EXCEPT !.loadip = pc])
    ELSE fs

AtRetStore(fs, ms, instr) ==
    IF Has(ms, "ret_store") /\ fs # << >> /\ Top(fs).callee = curFn
    THEN SetTop(fs, [Top(fs) EXCEPT !.has_ret = TRUE, !.retval = um.regs[instr.c]])
    ELSE fs

FramesAt(ms, pc, instr) ==
    AtRetStore(AtCallLoad(AtResumePush(AtArgPush(AtCallBegin(frames, ms), ms, instr),
                                       ms, instr), ms, pc), ms, instr)

Returns(ms, m, fs) == Has(ms, "ret_load") /\ fs # << >> /\ m.status = "ok"

StepTo(image, ms, instr, m, fs) ==
    /\ um' = m
    /\ frames' = IF Returns(ms, m, fs) THEN SubSeq(fs, 1, Len(fs) - 1) ELSE fs
    /\ lastRet' = IF Returns(ms, m, fs) THEN Top(fs) ELSE lastRet
    /\ curFn' = IF instr.opcode = 12 /\ um.regs[instr.b] # <<0, 0>>
                THEN FunctionOf(image, m) ELSE curFn
    /\ arrays' = IF Has(ms, "alloc") /\ m.status = "ok"
                 THEN arrays \cup {[handle |-> m.regs[instr.b],
                                    count |-> um.regs[instr.c][2]]}
                 ELSE arrays
    /\ event' = IF m.status # "ok" THEN [NoEvent EXCEPT !.kind = m.status]
                ELSE IF Returns(ms, m, fs) THEN [NoEvent EXCEPT !.kind = "returned"]
                ELSE IF Has(ms, "call_load")
                THEN [NoEvent EXCEPT !.kind = "called",
                                     !.name = The(ms, "call_load").name]
                ELSE IF Has(ms, "result_read")
                THEN [kind |-> "result_read",
                      name |-> The(ms, "result_read").name,
                      value |-> m.regs[instr.a]]
                ELSE [NoEvent EXCEPT !.kind = "step"]
    /\ phase' = IF m.status = "ok" THEN "run" ELSE "done"
    /\ UNCHANGED << prog, seg, cgvars, utvars, fevars >>

StepOf(image, ms, instr) ==
    StepTo(image, ms, instr, StepMachine(image.bodies, um), FramesAt(ms, um.pc, instr))

StepIn(image) ==
    /\ um.pc < ArrayLen(image.bodies, um.heap[1])
    /\ StepOf(image, MarksAt(image, curFn, um.pc),
              Decode(ArrayWord(image.bodies, um.heap[1], um.pc)))

Step ==
    /\ phase = "run"
    /\ StepIn(Compiled[prog])

\* The finger has left array 0: the machine stops.
RunOff ==
    /\ phase = "run"
    /\ um.pc >= ArrayLen(Compiled[prog].bodies, um.heap[1])
    /\ um' = Fault(um)
    /\ phase' = "done"
    /\ event' = [NoEvent EXCEPT !.kind = "fault"]
    /\ UNCHANGED << prog, seg, curFn, frames, lastRet, arrays, cgvars, utvars, fevars >>

Next == BootHeader \/ BootAllocation \/ BootJump \/ Step \/ RunOff

Spec == Init /\ [][Next]_vars

(***************************************************************************)
(* Part 6c.  SpecCodegen: compile_ast at work on the functions of a        *)
(* module, one statement at a time.                                        *)
(*                                                                         *)
(*   decls   the top-level nodes                                           *)
(*   ctx     the Context: the allocator, static_allocations, locals        *)
(*   at      the position in decls of the node compile_ast has come to     *)
(*   stage   "next" between two decls, "body" inside a function            *)
(*   stmt    the statement compile_node compiled last in this function     *)
(*   nstmts  how many statements of this function are compiled             *)
(* The body of a function is any sequence of at most MaxStatements of the  *)
(* statements below; the instructions yielded are not kept.                *)
(***************************************************************************)
MaxStatements == 2

MaxDepth == 4

LX == Local("x", "uint")

LB == Local("b", "array")

LitHi == ArrayLiteral(<< W(104), W(105) >>)

LitAb == ArrayLiteral(<< W(97), W(98) >>)

\* n: uint = 5 and g: array = "ab" at the top level, as a body names them.
GN == Global("n", "uint", U(5))

GG == Global("g", "array", LitAb)

\* x + (x + (... + x)) and ((x + x) + ...) + x with d operators.
RECURSIVE RightNested(_)
RightNested(d) == IF d = 0 THEN LX ELSE BinOp("+", LX, RightNested(d - 1))

RECURSIVE LeftNested(_)
LeftNested(d) == IF d = 0 THEN LX ELSE BinOp("+", LeftNested(d - 1), LX)

UintExprs ==
    { U(1), LX, GN,
      Subscript(LB, U(0)), Subscript(LB, LX), Subscript(GG, U(1)),
      Subscript(LitHi, RightNested(1)),
      BuiltinCall("len", << LB >>, "uint"),
      Call("f", << LX >>, "uint"),
      Call("f", << Call("f", << RightNested(MaxDepth - 2) >>, "uint") >>, "uint"),
      LeftNested(MaxDepth) }
        \cup { RightNested(d) : d \in 1..MaxDepth }

ArrayExprs == { LB, LitHi, GG, BuiltinCall("alloc", << LX >>, "array") }

\* The statements a function of the given return type may have.
Statements(return_type) ==
    { Assignment(LX, e) : e \in UintExprs }
        \cup { Assignment(LB, e) : e \in ArrayExprs }
        \cup { Assignment(Subscript(LB, U(0)), e) : e \in { LX, RightNested(2) } }
        \cup { Assignment(Subscript(LB, LX), U(1)),
               BuiltinCall("putchar", << Subscript(LB, LX) >>, "void"),
               BuiltinCall("free", << LB >>, "void"),
               Call("f", << LeftNested(1) >>, "uint") }
        \cup (IF return_type = "void" THEN { Return(NoneNode) }
              ELSE { Return(LX), Return(RightNested(1)) })

FnF == FunctionDef("f", << Argument("n", "uint") >>, << LX, LB >>, << >>, "uint")

FnMain == FunctionDef("main", << >>, << LX, LB >>, << >>, "void")

\* The top-level decls of: f and main; n, f and main; main, g and f.
Declarations ==
    { << FnF, FnMain >>, << U(5), FnF, FnMain >>, << FnMain, LitAb, FnF >> }

\* What is left of a Context between two steps: the yielded instructions
\* have gone to _ll_instrs.
Yielded(cs) == [cs EXCEPT !.out = << >>, !.marks = << >>, !.ret = 0]

InitCodegen ==
    /\ decls \in Declarations
    /\ ctx = NewContext(static_allocations_without_literal_arrays(decls, 0, << >>))
    /\ at = 1 /\ stage = "next" /\ stmt = NoneNode /\ nstmts = 0
    /\ prog = 0 /\ phase = "off" /\ seg = 0 /\ um = NewMachine /\ curFn = ""
    /\ frames = << >> /\ lastRet = NoFrame /\ arrays = {} /\ event = NoEvent
    /\ UnitsIdle /\ FrontendIdle

\* for node in decls: if isinstance(node, ast.FunctionDef) -- it is not.
SkipNode ==
    /\ stage = "next" /\ at <= Len(decls) /\ ctx.err = ""
    /\ decls[at].k # "FunctionDef"
    /\ at' = at + 1
    /\ UNCHANGED << decls, ctx, stage, stmt, nstmts, rtvars, utvars, fevars >>

\* compile_node(node, ctx) of a FunctionDef, up to its body.
BeginFunction ==
    /\ stage = "next" /\ at <= Len(decls) /\ ctx.err = ""
    /\ decls[at].k = "FunctionDef"
    /\ ctx' = Yielded(function_prologue(decls[at], ctx))
    /\ stage' = "body" /\ stmt' = NoneNode /\ nstmts' = 0
    /\ UNCHANGED << decls, at, rtvars, utvars, fevars >>

\* yield from compile_node(subnode, ctx) for the next statement.
CompileStatement ==
    /\ stage = "body" /\ ctx.err = "" /\ nstmts < MaxStatements
    /\ \E subnode \in Statements(decls[at].return_type) :
          /\ ctx' = Yielded(compile_node(subnode, ctx))
          /\ stmt' = subnode
    /\ nstmts' = nstmts + 1
    /\ UNCHANGED << decls, at, stage, rtvars, utvars, fevars >>

\* The body is over: the epilogue, and on to the next node.
EndFunction ==
    /\ stage = "body" /\ ctx.err = ""
    /\ ctx' = Yielded(function_epilogue(decls[at], ctx))
    /\ stage' = "next" /\ at' = at + 1 /\ stmt' = NoneNode /\ nstmts' = 0
    /\ UNCHANGED << decls, rtvars, utvars, fevars >>

NextCodegen == SkipNode \/ BeginFunction \/ CompileStatement \/ EndFunction

SpecCodegen == InitCodegen /\ [][NextCodegen]_vars

(***************************************************************************)
(* Part 6d.  SpecUnits: one expression or one instruction taken alone.     *)
(* probe is what is compiled, expanded or serialised; outcome is what the  *)
(* code makes of it.                                                       *)
(***************************************************************************)

\* uint operands: small ones, the two sides of Orthography.max_value, and
\* the two sides of 2^31 and 2^32.
Operands ==
    { <<0, 0>>, <<0, 1>>, <<0, 7>>, <<0, OrthMax>>, <<1, 0>>, <<64, 0>>,
      <<127, OrthMax>> }

BinOpProbes ==
    { [kind |-> "BinOp", op |-> o, a |-> x, b |-> y] :
        o \in {"+", "-", "*", "/"}, x \in Operands, y \in Operands }
    \ { [kind |-> "BinOp", op |-> "/", a |-> x, b |-> <<0, 0>>] : x \in Operands }

\* The machine after the native instructions a generator yielded.
Executed(cs) ==
    IF cs.err # "" THEN NewMachine
    ELSE RunIR(<< >>, cs.out, 1, Len(cs.out), NewMachine)

\* compute_into_register(BinOp(op, a, b), ctx), then the code it emitted is
\* run: the value is read from the register _binop returned.
EvalBinOpOf(cs, m) ==
    [kind |-> "BinOp", err |-> cs.err, status |-> m.status,
     value |-> IF cs.err = "" THEN m.regs[cs.ret] ELSE <<0, 0>>]

EvalBinOpIn(cs) == outcome' = EvalBinOpOf(cs, Executed(cs))

EvalBinOp ==
    /\ probe.kind = "BinOp" /\ outcome = NoProbe
    /\ EvalBinOpIn(compute_into_register(
           BinOp(probe.op, UIntLiteral(probe.a), UIntLiteral(probe.b)),
           NewContext(<< >>)))
    /\ UNCHANGED << probe, rtvars, cgvars, fevars >>

(***************************************************************************)
(* The serialization of one native instruction: its word, the four bytes   *)
(* compile_ast joins (to_bytes(4, 'big'), OverflowError for a word of more *)
(* than 32 bits), and the instruction the machine decodes from the bytes.  *)
(***************************************************************************)
to_bytes(w) ==
    << 2 * w[1] + (w[2] \div 16777216), (w[2] \div 65536) % 256,
       (w[2] \div 256) % 256, w[2] % 256 >>

\* The word the machine reads from four bytes, most significant first.
from_bytes(b) ==
    << b[1] \div 2, 16777216 * (b[1] % 2) + 65536 * b[2] + 256 * b[3] + b[4] >>

Serialized(instr, w) ==
    IF w[1] >= Hi
    THEN [kind |-> "native", err |-> "OverflowError", word |-> w,
          bytes |-> << >>, decoded |-> instr]
    ELSE [kind |-> "native", err |-> "", word |-> w, bytes |-> to_bytes(w),
          decoded |-> Decode(from_bytes(to_bytes(w)))]

\* Every opcode with operands that are register numbers, and some whose
\* operands are not: the constructors check none of a, b, c and register.
RegisterOperands == {0, 5, 7}

NativeProbes ==
    { [kind |-> "native", instr |-> Instruction(o, x, y, z)] :
        o \in 0..12, x \in RegisterOperands, y \in RegisterOperands,
        z \in RegisterOperands }
    \cup { [kind |-> "native", instr |-> Orthography(r, v)] :
             r \in RegisterOperands, v \in {0, 1, 16777216, OrthMax} }
    \cup { [kind |-> "native", instr |-> i] :
             i \in { Addition(8, 0, 0), ConditionalMove(dx, 40, cx),
                     Output(9), Orthography(8, 1) } }

Serialize ==
    /\ probe.kind = "native" /\ outcome = NoProbe
    /\ outcome' = Serialized(probe.instr, raw_instruction(probe.instr))
    /\ UNCHANGED << probe, rtvars, cgvars, fevars >>

(***************************************************************************)
(* The jump pseudo-instructions, whose ip and current_ip are instruction   *)
(* addresses, and PlaceholderInt: an address that is filled in after the   *)
(* instruction holding it was constructed.  A placeholder is [value,       *)
(* multiply, add, children]: value is None until it is filled in, children *)
(* are the placeholders __add__ and __sub__ made of it, as their places in *)
(* the sequence of all placeholders there are.                             *)
(***************************************************************************)
Jump(ip) ==
    Immediate(ax, W(0)) \o Immediate(bx, W(ip)) \o << LoadProgram(ax, bx) >>

JumpIfTrue(condition_register, ip, current_ip, tmp_register) ==
    Immediate(tmp_register, W(current_ip + 4))
        \o << ConditionalMove(tmp_register, ip, condition_register) >>
        \o Immediate(bx, W(0))
        \o << LoadProgram(bx, tmp_register) >>

JumpIfFalse(condition_register, ip, current_ip, tmp_register) ==
    Immediate(tmp_register, W(ip + 4))
        \o << ConditionalMove(tmp_register, current_ip, condition_register) >>
        \o Immediate(bx, W(0))
        \o << LoadProgram(bx, tmp_register) >>

PlaceholderInt(multiply, add) ==
    [value |-> None, multiply |-> multiply, add |-> add, children |-> {}]

\* PlaceholderInt.value
PlaceholderValue(p) ==
    IF p.value = None THEN None ELSE p.value * p.multiply + p.add

\* PlaceholderInt.__le__: a placeholder not filled in is <= anything.
PlaceholderLe(p, other) == IF p.value = None THEN TRUE ELSE PlaceholderValue(p) <= other

\* value > self.max_value of Orthography.__init__ for a placeholder: the
\* __gt__ functools.total_ordering derives from __le__.
PlaceholderGt(p, other) == ~PlaceholderLe(p, other)

\* The value setter, which fills the children of __add__ in as well.
Filled(p, v) == [p EXCEPT !.value = v]

\* Orthography(register, p) is constructed, p is filled in with v (or is
\* not: v = None), and the instruction is serialized: index(self.value)
\* raises ValueError for a placeholder that was not filled in.
OrthographyOf(register, p, v) ==
    IF PlaceholderGt(p, OrthMax)
    THEN [kind |-> "placeholder", err |-> "ValueError: cannot store an immediate",
          instrs |-> << >>]
    ELSE IF v = None
    THEN [kind |-> "placeholder", err |-> "ValueError: placeholder was not filled in",
          instrs |-> << >>]
    ELSE [kind |-> "placeholder", err |-> "",
          instrs |-> << Orthography(register, PlaceholderValue(Filled(p, v))) >>]

JumpProbes ==
    { [kind |-> k, condition_register |-> cx, ip |-> i, current_ip |-> c,
       tmp_register |-> dx] :
        k \in {"JumpIfTrue", "JumpIfFalse", "Jump"}, i \in {0, 7, 8, 40}, c \in {0, 3, 10} }

PlaceholderProbes ==
    { [kind |-> "placeholder", register |-> r, add |-> a, fill |-> v] :
        r \in {ax, dx}, a \in {0, 4},
        v \in {None, 0, 17, OrthMax - 4, OrthMax, OrthMax + 1} }

\* The native instructions of a jump pseudo-instruction.
ExpandJump ==
    /\ probe.kind \in {"JumpIfTrue", "JumpIfFalse", "Jump"} /\ outcome = NoProbe
    /\ outcome' =
         [kind |-> "jump", err |-> "",
          instrs |->
            CASE probe.kind = "JumpIfTrue" ->
                     JumpIfTrue(probe.condition_register, probe.ip,
                                probe.current_ip, probe.tmp_register)
              [] probe.kind = "JumpIfFalse" ->
                     JumpIfFalse(probe.condition_register, probe.ip,
                                 probe.current_ip, probe.tmp_register)
              [] probe.kind = "Jump" -> Jump(probe.ip)]
    /\ UNCHANGED << probe, rtvars, cgvars, fevars >>

\* An Orthography of a placeholder that is filled in afterwards.
FillPlaceholder ==
    /\ probe.kind = "placeholder" /\ outcome = NoProbe
    /\ outcome' = OrthographyOf(probe.register, PlaceholderInt(1, probe.add), probe.fill)
    /\ UNCHANGED << probe, rtvars, cgvars, fevars >>

(***************************************************************************)
(* Immediate(register, value): its native instructions, and the registers  *)
(* of a new machine after they were executed one by one.                   *)
(***************************************************************************)
ImmediateValues ==
    { <<0, 0>>, <<0, 1>>, <<0, OrthMax>>, <<1, 0>>, <<1, OrthMax - 2>>,
      <<1, OrthMax - 1>>, <<1, OrthMax>>, <<2, 0>>, <<64, 0>>, <<127, OrthMax>> }

ImmediateProbes ==
    { [kind |-> "Immediate", register |-> r, value |-> v] :
        r \in {ax, bx, cx, stack_top}, v \in ImmediateValues }

Expanded(instrs, m) ==
    [kind |-> "Immediate", err |-> "", instrs |-> instrs, status |-> m.status,
     regs |-> m.regs]

ExpandImmediate ==
    /\ probe.kind = "Immediate" /\ outcome = NoProbe
    /\ \E instrs \in {Immediate(probe.register, probe.value)} :
          outcome' = Expanded(instrs, RunIR(<< >>, instrs, 1, Len(instrs), NewMachine))
    /\ UNCHANGED << probe, rtvars, cgvars, fevars >>

(***************************************************************************)
(* set_bits on its own: the fields the encoders write, on words whose      *)
(* other bits are clear or set, with values that fit the field and values  *)
(* that do not.                                                            *)
(***************************************************************************)
BitFields == { <<28, 4>>, <<25, 3>>, <<6, 3>>, <<3, 3>>, <<0, 3>>, <<0, 25>> }

SetBitsProbes ==
    { [kind |-> "set_bits", n |-> w, start |-> f[1], count |-> f[2], value |-> v] :
        w \in { <<0, 0>>, <<104, 0>>, <<127, OrthMax>>, <<24, 325>> },
        f \in BitFields, v \in {0, 1, 5, 7, 8, 40} }

SetBits ==
    /\ probe.kind = "set_bits" /\ outcome = NoProbe
    /\ outcome' = [kind |-> "set_bits",
                   word |-> set_bits(probe.n, probe.start, probe.count, probe.value)]
    /\ UNCHANGED << probe, rtvars, cgvars, fevars >>

(***************************************************************************)
(* Arithmetic on placeholders.  ps is the sequence of the placeholder      *)
(* objects there are; an operand or a result is [obj |-> its place in ps]  *)
(* or, from a placeholder that is filled in, [int |-> the integer].        *)
(***************************************************************************)
\* PlaceholderInt.__add__ on ps[i] (__sub__ is __add__ of -other:
\* PlaceholderInt(add=self._add - other) and self.value - other).
placeholder_add(ps, i, other) ==
    IF ps[i].value = None
    THEN [ps |-> Append([ps EXCEPT ![i].children = @ \cup {Len(ps) + 1}],
                        PlaceholderInt(1, ps[i].add + other)),
          ret |-> [obj |-> Len(ps) + 1]]
    ELSE [ps |-> ps, ret |-> [int |-> PlaceholderValue(ps[i]) + other]]

\* The value setter on the placeholders todo: self._value = v, then
\* child.value = v for every child.
RECURSIVE set_value(_, _, _)
set_value(ps, todo, v) ==
    IF todo = {} THEN ps
    ELSE Bind(CHOOSE c \in todo : TRUE, LAMBDA c :
             set_value([ps EXCEPT ![c].value = v], (todo \ {c}) \cup ps[c].children, v))

\* The operations ops, each [on, by]: the placeholder at place on plus by.
RECURSIVE placeholder_ops(_, _, _)
placeholder_ops(ps, ops, n) ==
    IF n > Len(ops) THEN ps
    ELSE placeholder_ops(placeholder_add(ps, ops[n].on, ops[n].by).ps, ops, n + 1)

Offsets == {4, 0 - 1}

\* p, then a first expression of p, then a second one of p or of the first.
PlaceholderChains ==
    { << [on |-> 1, by |-> a] >> : a \in Offsets }
    \cup { << [on |-> 1, by |-> a], [on |-> t, by |-> b] >> :
             a \in Offsets, b \in Offsets, t \in {1, 2} }

ArithmeticProbes ==
    { [kind |-> "PlaceholderInt", multiply |-> m, add |-> a, ops |-> o, fill |-> v] :
        m \in {1, 2}, a \in {0, 3}, o \in PlaceholderChains, v \in {0, 10} }

\* p = PlaceholderInt(multiply, add); the expressions are formed; p.value =
\* fill; the value of every placeholder is read.
ResolvePlaceholder ==
    /\ probe.kind = "PlaceholderInt" /\ outcome = NoProbe
    /\ \E ps \in { set_value(placeholder_ops(<< PlaceholderInt(probe.multiply, probe.add) >>,
                                             probe.ops, 1),
                             {1}, probe.fill) } :
          outcome' = [kind |-> "PlaceholderInt",
                      values |-> << >> \o [i \in 1..Len(ps) |-> PlaceholderValue(ps[i])]]
    /\ UNCHANGED << probe, rtvars, cgvars, fevars >>

(***************************************************************************)
(* A conditional jump at work: its native instructions, as the words they  *)
(* are serialized to, are executed on a machine whose register r holds     *)
(* 100 + r, but for the condition register, which holds cond.  The         *)
(* sequence starts at current_ip of array 0.                               *)
(***************************************************************************)
RunJumpProbes ==
    { [kind |-> "RunJump", jump |-> k, cond |-> c, ip |-> i, current_ip |-> at0] :
        k \in {"JumpIfTrue", "JumpIfFalse"}, c \in {0, 1, 5},
        i \in {0, 2, 7, 8, 40}, at0 \in {0, 10, 20} }

JumpMachine(cond_register, cond) ==
    [NewMachine EXCEPT
        !.regs = [r \in 0..7 |-> IF r = cond_register THEN <<0, cond>> ELSE <<0, 100 + r>>]]

\* What the machine executes for the instructions instrs.
AsSerialized(instrs) ==
    << >> \o [j \in 1..Len(instrs) |-> Decode(raw_instruction(instrs[j]))]

JumpTaken(instrs, m) ==
    [kind |-> "RunJump", length |-> Len(instrs), status |-> m.status, pc |-> m.pc]

RunJump ==
    /\ probe.kind = "RunJump" /\ outcome = NoProbe
    /\ \E instrs \in { IF probe.jump = "JumpIfTrue"
                       THEN JumpIfTrue(cx, probe.ip, probe.current_ip, dx)
                       ELSE JumpIfFalse(cx, probe.ip, probe.current_ip, dx) } :
          outcome' = JumpTaken(instrs,
                        RunIR(<< >>, AsSerialized(instrs), 1, Len(instrs),
                              JumpMachine(cx, probe.cond)))
    /\ UNCHANGED << probe, rtvars, cgvars, fevars >>

(***************************************************************************)
(* Sums of literals nested to the right, t1 + (t2 + (... + last)): every   *)
(* left operand stays in its register while the right one is computed, so  *)
(* the last literal is loaded with depth registers held by other operands. *)
(***************************************************************************)
RECURSIVE NestedSum(_, _)
NestedSum(depth, last) ==
    IF depth = 0 THEN UIntLiteral(last)
    ELSE BinOp("+", UIntLiteral(<<0, depth>>), NestedSum(depth - 1, last))

SumProbes ==
    { [kind |-> "Sum", depth |-> d, last |-> w] :
        d \in 0..3, w \in {<<0, 7>>, <<1, 0>>, <<1, 3>>, <<3, OrthMax>>} }

\* The registers an accumulator of Immediate overwrote while another
\* holder had them occupied.
Overwritten(cs) ==
    { r \in {ax, bx, cx, dx} :
        \E j \in 1..Len(cs.marks) :
            /\ cs.marks[j].tag = "immediate"
            /\ r = ImmediateAcc(cs.marks[j].i)
            /\ r \in cs.marks[j].held \ {cs.marks[j].i} }

EvalSumOf(cs, m) ==
    [kind |-> "Sum", err |-> cs.err, status |-> m.status,
     value |-> IF cs.err = "" THEN m.regs[cs.ret] ELSE <<0, 0>>,
     overwritten |-> Overwritten(cs)]

EvalSum ==
    /\ probe.kind = "Sum" /\ outcome = NoProbe
    /\ LET cs == compute_into_register(NestedSum(probe.depth, probe.last),
                                       NewContext(<< >>))
       IN  outcome' = EvalSumOf(cs, Executed(cs))
    /\ UNCHANGED << probe, rtvars, cgvars, fevars >>

(***************************************************************************)
(* Expressions whose code occupies and releases registers in different     *)
(* orders: operands released newest first (_binop, a literal index) and    *)
(* an index register released after the newer register of the array       *)
(* (_compute_subscript with a computed index).  The outcome is the         *)
(* allocator when compute_into_register returns, the register of the       *)
(* result still out.                                                       *)
(***************************************************************************)
\* a[i] for the array literal [104, 105] and a literal index.
ArrayElement(i) ==
    Subscript(ArrayLiteral(<< <<0, 104>>, <<0, 105>> >>), UIntLiteral(<<0, i>>))

OccupyExprs ==
    { UIntLiteral(<<0, 1>>),
      BinOp("+", UIntLiteral(<<0, 1>>), UIntLiteral(<<0, 2>>)),
      BinOp("+", ArrayElement(0), UIntLiteral(<<0, 2>>)),
      ArrayElement(0),
      Subscript(ArrayLiteral(<< <<0, 104>>, <<0, 105>> >>),
                BinOp("+", UIntLiteral(<<0, 0>>), UIntLiteral(<<0, 1>>))),
      Subscript(ArrayLiteral(<< <<0, 104>>, <<0, 105>> >>), ArrayElement(1)),
      BinOp("+", UIntLiteral(<<0, 2>>),
            Subscript(ArrayLiteral(<< <<0, 104>>, <<0, 105>> >>), ArrayElement(1))) }

OccupyProbes == { [kind |-> "Occupy", expr |-> e] : e \in OccupyExprs }

OccupyOf(cs) ==
    [kind |-> "Occupy", err |-> cs.err, given |-> cs.given, handles |-> cs.handles]

OccupyRelease ==
    /\ probe.kind = "Occupy" /\ outcome = NoProbe
    /\ outcome' = OccupyOf(compute_into_register(probe.expr, NewContext(<< >>)))
    /\ UNCHANGED << probe, rtvars, cgvars, fevars >>

(***************************************************************************)
(* a[ix] is read, or a[ix] = 77 is executed, for a local array a of three  *)
(* elements (its length word at slot 0, the elements 10, 20, 30 after it)  *)
(* and an index that is a literal, a uint global or the local i.  The code *)
(* is run on a machine whose LOCALS array holds a and i.                   *)
(***************************************************************************)
Elements == << <<0, 3>>, <<0, 10>>, <<0, 20>>, <<0, 30>> >>

ElementProbes ==
    { [kind |-> "Element", access |-> o, form |-> f, ix |-> n] :
        o \in {"read", "write"}, f \in {"literal", "global", "computed"},
        n \in 0..2 }

ElementIndex(form, n) ==
    IF form = "literal" THEN UIntLiteral(<<0, n>>)
    ELSE IF form = "global" THEN Global("g", "uint", UIntLiteral(<<0, n>>))
    ELSE Local("i", "uint")

ElementContext ==
    [NewContext(<< >>) EXCEPT
        !.locals = << NodeKey(Local("a", "array")), NodeKey(Local("i", "uint")) >>]

\* Array 1 is LOCALS (a, i), array 2 is a.
ElementMachine(n) ==
    [NewMachine EXCEPT
        !.heap = << NewArray(0),
                    [len |-> 2, words |-> << <<0, 2>>, <<0, n>> >>],
                    [len |-> 4, words |-> Elements] >>,
        !.live = {0, 1, 2},
        !.regs[locals] = <<0, 1>>]

ElementOf(cs, m) ==
    [kind |-> "Element", err |-> cs.err, status |-> m.status,
     value |-> IF cs.err = "" /\ probe.access = "read" THEN m.regs[cs.ret]
               ELSE <<0, 0>>,
     words |-> ArrayWords(<< >>, m.heap[3])]

ElementIn(cs, m) ==
    outcome' = ElementOf(cs, IF cs.err # "" THEN m
                             ELSE RunIR(<< >>, cs.out, 1, Len(cs.out), m))

AccessElement ==
    /\ probe.kind = "Element" /\ outcome = NoProbe
    /\ ElementIn(IF probe.access = "read"
                 THEN compute_into_register(
                          Subscript(Local("a", "array"),
                                    ElementIndex(probe.form, probe.ix)),
                          ElementContext)
                 ELSE compile_node(
                          Assignment(Subscript(Local("a", "array"),
                                               ElementIndex(probe.form, probe.ix)),
                                     UIntLiteral(<<0, 77>>)),
                          ElementContext),
                 ElementMachine(probe.ix))
    /\ UNCHANGED << probe, rtvars, cgvars, fevars >>

Probes ==
    BinOpProbes \cup NativeProbes \cup JumpProbes \cup PlaceholderProbes
        \cup ImmediateProbes
        \cup SetBitsProbes
        \cup ArithmeticProbes
        \cup RunJumpProbes
        \cup SumProbes
        \cup OccupyProbes
        \cup ElementProbes

InitUnits ==
    /\ probe \in Probes /\ outcome = NoProbe
    /\ prog = 0 /\ phase = "off" /\ seg = 0 /\ um = NewMachine /\ curFn = ""
    /\ frames = << >> /\ lastRet = NoFrame /\ arrays = {} /\ event = NoEvent
    /\ decls = << >> /\ ctx = NewContext(<< >>) /\ at = 0
    /\ stage = "off" /\ stmt = NoneNode /\ nstmts = 0
    /\ FrontendIdle

NextUnits ==
    EvalBinOp \/ Serialize \/ ExpandJump \/ FillPlaceholder \/ ExpandImmediate
        \/ SetBits
        \/ ResolvePlaceholder
        \/ RunJump
        \/ EvalSum
        \/ OccupyRelease
        \/ AccessElement

SpecUnits == InitUnits /\ [][NextUnits]_vars


(***************************************************************************)
(* Part 6e.  The frontend (ast.py) and the command line (__main__.py).     *)
(*                                                                         *)
(* A source file is its name and the statements Python's ast.parse gives   *)
(* for it, as records with a field t naming the Python node class:         *)
(*   PyFunctionDef(name, args, returns, body, lineno), args a sequence of  *)
(*       PyArg(arg, annotation)                                            *)
(*   PyAnnAssign(id, annotation, value, lineno)  PyAssign(id, value, lineno)*)
(*   PyExpr(value, lineno)  PyReturn(value, lineno)                        *)
(*   PyNum(n)  PyStr(s)  PyName(id)  PyCall(id, args)  PyUm(attr, args)    *)
(*   PyBinOp(left, op, right)  PyUnaryOp(op, operand)                      *)
(* An annotation is the id of its Name, "" where there is none.  An        *)
(* expression is on the line of its statement.                             *)
(*                                                                         *)
(* A translator is a record: globals and functions (the dicts of parse),   *)
(* body (the list visit_* append to), namespace and return_type (of        *)
(* _FunctionTranslator), the length of the string that stands where        *)
(* self.lines is expected, and err, the exception that ended it.           *)
(***************************************************************************)
PyArg(arg, annotation) == [arg |-> arg, annotation |-> annotation]
PyFunctionDef(name, args, returns, body, lineno) ==
    [t |-> "FunctionDef", name |-> name, args |-> args, returns |-> returns,
     body |-> body, lineno |-> lineno]
PyAnnAssign(id, annotation, value, lineno) ==
    [t |-> "AnnAssign", id |-> id, annotation |-> annotation, value |-> value,
     lineno |-> lineno]
PyAssign(id, value, lineno) ==
    [t |-> "Assign", id |-> id, value |-> value, lineno |-> lineno]
PyExpr(value, lineno) == [t |-> "Expr", value |-> value, lineno |-> lineno]
\* for <id> in <iter>: <body>
PyFor(id, iter, body, lineno) ==
    [t |-> "For", id |-> id, iter |-> iter, body |-> body, lineno |-> lineno]
PyReturn(value, lineno) == [t |-> "Return", value |-> value, lineno |-> lineno]
PyNum(n) == [t |-> "Num", n |-> n]
PyStr(s) == [t |-> "Str", s |-> s]
PyName(id) == [t |-> "Name", id |-> id]
PyCall(id, args) == [t |-> "Call", id |-> id, args |-> args]
PyUm(attr, args) == [t |-> "Um", attr |-> attr, args |-> args]
PyBinOp(left, op, right) == [t |-> "BinOp", left |-> left, op |-> op, right |-> right]
PyUnaryOp(op, operand) == [t |-> "UnaryOp", op |-> op, operand |-> operand]
PyNone == [t |-> "None"]

NoError == [exc |-> "", msg |-> "", lineno |-> 0]

\* _AstTranslator.__init__; text is len(self.lines) where self.lines is a
\* string, 0 - 1 where it is the list of the source's lines.
Translator(globals, functions, text) ==
    [globals |-> globals, functions |-> functions, body |-> << >>,
     namespace |-> << >>, return_type |-> "", text |-> text, err |-> NoError]

Failed(tr) == tr.err.exc # ""

RaiseIn(tr, exc, msg, lineno) ==
    IF Failed(tr) THEN tr
    ELSE [tr EXCEPT !.err = [exc |-> exc, msg |-> msg, lineno |-> lineno]]

(***************************************************************************)
(* _AstTranslator.syntax_error: SyntaxError(msg, (self.filename,           *)
(* node.lineno, node.col_offset + 1, self.lines[node.lineno - 1])).  Where *)
(* self.lines is a string shorter than lineno the subscript raises         *)
(* IndexError before the SyntaxError is made.                              *)
(***************************************************************************)
syntax_error(tr, lineno, msg) ==
    IF tr.text >= 0 /\ lineno > tr.text
    THEN RaiseIn(tr, "IndexError", "string index out of range", 0)
    ELSE RaiseIn(tr, "SyntaxError", msg, lineno)

\* process_annotation: an annotation is one of uint, array and void.
process_annotation(tr, annotation, lineno) ==
    IF annotation = "" THEN syntax_error(tr, lineno, "missing type information")
    ELSE IF annotation \notin {"uint", "array", "void"}
    THEN syntax_error(tr, lineno, "type must be uint, array or void")
    ELSE tr

Appended(tr, node) == IF Failed(tr) THEN tr ELSE [tr EXCEPT !.body = Append(@, node)]

\* with self.scoped_body() as body: the nodes tr2 appended, and tr2 with
\* the body of tr again.
Scoped(tr) == IF Failed(tr) THEN tr ELSE [tr EXCEPT !.body = << >>]

Unscoped(tr, tr2) == IF Failed(tr2) THEN tr2 ELSE [tr2 EXCEPT !.body = tr.body]

\* visit_Num, visit_Str of _AstTranslator (the literals here fit a uint and
\* are ascii).
visit_Num(tr, node) == Appended(tr, UIntLiteral(node.n))

visit_Str(tr, node) == Appended(tr, ArrayLiteral(node.s))


(***************************************************************************)
(* _FunctionTranslator.  namespace is the dict of the function's arguments *)
(* and locals in insertion order; functions is the dict of _GlobalFinder,  *)
(* a sequence of [name, args, return_type].                                *)
(***************************************************************************)
Named(entries, name) == \E j \in 1..Len(entries) : entries[j].name = name

Lookup(entries, name) ==
    entries[CHOOSE j \in 1..Len(entries) : entries[j].name = name]

\* BuiltinCall.valid
BuiltinValid ==
    << [name |-> "len", args |-> << Argument("arr", "array") >>, return_type |-> "uint"],
       [name |-> "putchar", args |-> << Argument("c", "uint") >>, return_type |-> "void"],
       [name |-> "alloc", args |-> << Argument("size", "uint") >>, return_type |-> "array"],
       [name |-> "free", args |-> << Argument("arr", "array") >>, return_type |-> "void"],
       [name |-> "exit", args |-> << >>, return_type |-> "void"] >>

\* visit_Name, for a name that is loaded.
visit_Name(tr, node, lineno) ==
    IF Failed(tr) THEN tr
    ELSE IF ~Named(tr.namespace, node.id) /\ ~Named(tr.globals, node.id)
    THEN syntax_error(tr, lineno, "undefined variable")
    ELSE IF Named(tr.namespace, node.id)
    THEN Appended(tr, Lookup(tr.namespace, node.id))
    ELSE Appended(tr, Lookup(tr.globals, node.id))

\* The loop of visit_Call over zip(node.args, args, arg_defs): the first
\* argument whose type is not the type of its definition ends it.
ArgTypesChecked(tr, args, arg_defs, lineno) ==
    IF \E n \in 1..Len(args) : args[n].type # arg_defs[n].type
    THEN syntax_error(tr, lineno, "argument is expected to be of another type")
    ELSE tr

\* visit_Call once its arguments were visited into the scoped body of tr2.
CallChecked(tr, tr2, node, lineno) ==
    IF Failed(tr2) THEN tr2
    ELSE Bind(IF node.t = "Um" THEN Lookup(BuiltinValid, node.attr)
              ELSE Lookup(tr.functions, node.id), LAMBDA def :
         IF Len(tr2.body) # Len(def.args)
         THEN syntax_error(tr2, lineno, "function expects another number of arguments")
         ELSE Bind(ArgTypesChecked(tr2, tr2.body, def.args, lineno), LAMBDA tr3 :
              Appended(Unscoped(tr, tr3),
                       IF node.t = "Um"
                       THEN BuiltinCall(node.attr, tr2.body, def.return_type)
                       ELSE Call(node.id, tr2.body, def.return_type))))

\* visit_BinOp once both operands were visited into the scoped body of tr2.
BinOpChecked(tr, tr2, node, lineno) ==
    IF Failed(tr2) THEN tr2
    ELSE IF Len(tr2.body) # 2
    THEN RaiseIn(tr2, "AssertionError", "incorrect number of operands", 0)
    ELSE IF tr2.body[1].type # "uint" \/ tr2.body[2].type # "uint"
    THEN syntax_error(tr2, lineno, "cannot add operand of this type")
    ELSE Appended(Unscoped(tr, tr2), BinOp(node.op, tr2.body[1], tr2.body[2]))

\* visit_UnaryOp once its operand was visited into the scoped body of tr2.
UnaryOpChecked(tr, tr2, node, lineno) ==
    IF Failed(tr2) THEN tr2
    ELSE IF Len(tr2.body) # 1
    THEN syntax_error(tr2, lineno, "invalid unary operand")
    ELSE Appended(Unscoped(tr, tr2), UnOp(node.op, tr2.body[1]))

RECURSIVE visit(_, _, _)
RECURSIVE visit_all(_, _, _)
\* for arg in node.args: self.visit(arg)
visit_all(tr, exprs, lineno) ==
    IF exprs = << >> \/ Failed(tr) THEN tr
    ELSE visit_all(visit(tr, Head(exprs), lineno), Tail(exprs), lineno)

\* visit_Call: the callee is um.<attr> or the name of a function.
visit_Call(tr, node, lineno) ==
    IF Failed(tr) THEN tr
    ELSE IF node.t = "Um" /\ ~Named(BuiltinValid, node.attr)
    THEN syntax_error(tr, lineno, "unknown builtin function")
    ELSE IF node.t = "Call" /\ ~Named(tr.functions, node.id)
    THEN syntax_error(tr, lineno, "unknown function")
    ELSE Bind(visit_all(Scoped(tr), node.args, lineno), LAMBDA tr2 :
         CallChecked(tr, tr2, node, lineno))

visit_BinOp(tr, node, lineno) ==
    IF Failed(tr) THEN tr
    ELSE IF node.op \notin {"+", "-", "*", "/"}
    THEN syntax_error(tr, lineno, "unknown operator")
    ELSE Bind(visit(visit(Scoped(tr), node.left, lineno), node.right, lineno),
              LAMBDA tr2 : BinOpChecked(tr, tr2, node, lineno))

visit_UnaryOp(tr, node, lineno) ==
    IF Failed(tr) THEN tr
    ELSE IF node.op \notin {"+", "-", "~", "not"}
    THEN syntax_error(tr, lineno, "unknown operator")
    ELSE Bind(visit(Scoped(tr), node.operand, lineno),
              LAMBDA tr2 : UnaryOpChecked(tr, tr2, node, lineno))

\* ast.NodeVisitor.visit for the expressions of a function body.
visit(tr, node, lineno) ==
    CASE node.t = "Num" -> visit_Num(tr, node)
      [] node.t = "Str" -> visit_Str(tr, node)
      [] node.t = "Name" -> visit_Name(tr, node, lineno)
      [] node.t \in {"Call", "Um"} -> visit_Call(tr, node, lineno)
      [] node.t = "BinOp" -> visit_BinOp(tr, node, lineno)
      [] node.t = "UnaryOp" -> visit_UnaryOp(tr, node, lineno)


\* _FunctionTranslator.visit_AnnAssign once the value was visited into the
\* scoped body of tr2.
AnnAssignChecked(tr, tr2, node) ==
    IF Failed(tr2) THEN tr2
    ELSE IF Len(tr2.body) # 1
    THEN RaiseIn(tr2, "AssertionError", "incorrect number of rhs nodes", 0)
    ELSE IF tr2.body[1].type # node.annotation
    THEN syntax_error(tr2, node.lineno, "invalid assignment")
    ELSE Bind(Local(node.id, node.annotation), LAMBDA lhs :
         Appended([Unscoped(tr, tr2) EXCEPT !.namespace = Append(@, lhs)],
                  Assignment(lhs, tr2.body[1])))

visit_AnnAssign(tr, node) ==
    IF Failed(tr) THEN tr
    ELSE IF Named(tr.namespace, node.id)
    THEN syntax_error(tr, node.lineno, "redefinition of local variable")
    ELSE Bind(process_annotation(tr, node.annotation, node.lineno), LAMBDA tr1 :
         Bind(visit(Scoped(tr1), node.value, node.lineno), LAMBDA tr2 :
         AnnAssignChecked(tr, tr2, node)))

\* _FunctionTranslator.visit_Assign to a name, once the value was visited.
AssignChecked(tr, tr2, node) ==
    IF Failed(tr2) THEN tr2
    ELSE IF Len(tr2.body) # 1
    THEN RaiseIn(tr2, "AssertionError", "incorrect number of rhs nodes", 0)
    ELSE IF ~Named(tr.namespace, node.id)
    THEN syntax_error(tr2, node.lineno, "undefined variable")
    ELSE IF tr2.body[1].type # Lookup(tr.namespace, node.id).type
    THEN syntax_error(tr2, node.lineno, "invalid assignment")
    ELSE Appended(Unscoped(tr, tr2),
                  Assignment(Lookup(tr.namespace, node.id), tr2.body[1]))

visit_Assign(tr, node) ==
    IF Failed(tr) THEN tr
    ELSE Bind(visit(Scoped(tr), node.value, node.lineno), LAMBDA tr2 :
         AssignChecked(tr, tr2, node))

\* visit_Return once the value was visited into the scoped body of tr2.
ReturnChecked(tr, tr2, node) ==
    IF Failed(tr2) THEN tr2
    ELSE IF Len(tr2.body) # 1
    THEN RaiseIn(tr2, "AssertionError", "incorrect number of return value nodes", 0)
    ELSE IF tr2.body[1].type # tr.return_type
    THEN syntax_error(tr2, node.lineno, "cannot return value of this type")
    ELSE Appended(Unscoped(tr, tr2), Return(tr2.body[1]))

\* visit_Return; a bare return reads self.return_type, which no translator
\* has (the attribute is _return_type).
visit_Return(tr, node) ==
    IF Failed(tr) THEN tr
    ELSE IF node.value = PyNone
    THEN RaiseIn(tr, "AttributeError", "no attribute return_type", 0)
    ELSE Bind(visit(Scoped(tr), node.value, node.lineno), LAMBDA tr2 :
         ReturnChecked(tr, tr2, node))

\* self.namespace[name] = node: the entry of that name is replaced where it
\* is, a new name is added at the end.
NamespaceSet(namespace, node) ==
    IF Named(namespace, node.name)
    THEN << >> \o [j \in 1..Len(namespace) |->
                    IF namespace[j].name = node.name THEN node ELSE namespace[j]]
    ELSE Append(namespace, node)

RECURSIVE visit_body(_, _)

\* visit_For once the iterator was visited into the scoped body of tr2: the
\* statements of the loop are visited into a scoped body of their own.
ForChecked(tr, tr2, node, target) ==
    IF Failed(tr2) THEN tr2
    ELSE IF Len(tr2.body) # 1
    THEN RaiseIn(tr2, "AssertionError", "incorrect number of iterator nodes", 0)
    ELSE IF tr2.body[1].type # "array"
    THEN syntax_error(tr2, node.lineno, "cannot iterate over values of this type")
    ELSE Bind(visit_body(Scoped(tr2), node.body), LAMBDA tr3 :
             Appended(Unscoped(tr, tr3), For(target, tr2.body[1], tr3.body)))

(***************************************************************************)
(* visit_For for a loop without else whose target is a name.  The target   *)
(* is a Name in Store context, for which visit_Name appends nothing, so    *)
(* the scoped body `target` is empty whatever the namespace holds and the  *)
(* name is bound to a new Local of type uint.                              *)
(***************************************************************************)
visit_For(tr, node) ==
    IF Failed(tr) THEN tr
    ELSE Bind(Local(node.id, "uint"), LAMBDA target :
         Bind(visit(Scoped([tr EXCEPT !.namespace = NamespaceSet(@, target)]),
                    node.iter, node.lineno), LAMBDA tr2 :
             ForChecked(tr, tr2, node, target)))

\* t.visit(n) for a statement n of a function body; an expression statement
\* is visited by generic_visit, which visits its value.
visit_statement(tr, node) ==
    CASE node.t = "AnnAssign" -> visit_AnnAssign(tr, node)
      [] node.t = "Assign" -> visit_Assign(tr, node)
      [] node.t = "Return" -> visit_Return(tr, node)
      [] node.t = "Expr" -> visit(tr, node.value, node.lineno)
      [] node.t = "For" -> visit_For(tr, node)
      [] node.t = "FunctionDef" ->
             syntax_error(tr, node.lineno, "UML does not support closures")

\* for n in node.body: t.visit(n)
visit_body(tr, stmts) ==
    IF stmts = << >> \/ Failed(tr) THEN tr
    ELSE visit_body(visit_statement(tr, Head(stmts)), Tail(stmts))

\* _FunctionTranslator.__init__
FunctionTranslator(arguments, return_type, tr) ==
    [Translator(tr.globals, tr.functions, tr.text) EXCEPT
        !.namespace = arguments, !.return_type = return_type]

\* The locals of the FunctionDef: the namespace without the arguments.
NonArguments(namespace, args) ==
    SelectSeq(namespace, LAMBDA v : ~Named(args, v.name))

\* _TopLevelTranslator.visit_FunctionDef
tl_visit_FunctionDef(tr, node) ==
    IF Failed(tr) THEN tr
    ELSE Bind(Lookup(tr.functions, node.name), LAMBDA def :
         Bind(visit_body(FunctionTranslator(def.args, def.return_type, tr), node.body),
              LAMBDA t :
         IF Failed(t) THEN [tr EXCEPT !.err = t.err]
         ELSE Appended(tr, FunctionDef(node.name, def.args,
                               NonArguments(t.namespace, def.args), t.body,
                               def.return_type))))

\* What the visitors of _AstTranslator do with the value of a global:
\* a literal is appended, a call is code outside of a function body, and a
\* name has no visitor.
base_visit(tr, node, lineno) ==
    CASE node.t = "Num" -> visit_Num(tr, node)
      [] node.t = "Str" -> visit_Str(tr, node)
      [] node.t \in {"Call", "Um"} ->
             syntax_error(tr, lineno, "cannot execute code outside of a function body")
      [] OTHER -> tr

\* _TopLevelTranslator on a statement of the module; it has no
\* visit_AnnAssign, so generic_visit visits the value of a global.
tl_visit(tr, node) ==
    CASE node.t = "FunctionDef" -> tl_visit_FunctionDef(tr, node)
      [] node.t = "AnnAssign" -> base_visit(tr, node.value, node.lineno)
      [] node.t = "Assign" ->
             syntax_error(tr, node.lineno, "global assignment requires a type")
      [] node.t = "Expr" -> base_visit(tr, node.value, node.lineno)

\* process_function_args: the annotation of every argument, in order.
RECURSIVE process_function_args(_, _, _)
process_function_args(tr, args, lineno) ==
    IF args = << >> \/ Failed(tr) THEN tr
    ELSE process_function_args(process_annotation(tr, Head(args).annotation, lineno),
                               Tail(args), lineno)

ArgumentsOf(args) ==
    << >> \o [j \in 1..Len(args) |-> Argument(args[j].arg, args[j].annotation)]

\* _GlobalFinder.visit_FunctionDef
gf_visit_FunctionDef(tr, node) ==
    IF Failed(tr) THEN tr
    ELSE IF Named(tr.functions, node.name)
    THEN syntax_error(tr, node.lineno, "redefinition of function {node.name!r}")
    ELSE Bind(process_function_args(tr, node.args, node.lineno), LAMBDA tr1 :
         Bind(process_annotation(tr1, node.returns, node.lineno), LAMBDA tr2 :
         IF Failed(tr2) THEN tr2
         ELSE [tr2 EXCEPT !.functions = Append(@,
                   [name |-> node.name, args |-> ArgumentsOf(node.args),
                    return_type |-> node.returns])]))

\* _GlobalFinder.visit_AnnAssign once the value was visited.
GlobalChecked(tr, tr2, node) ==
    IF Failed(tr2) THEN tr2
    ELSE IF Len(tr2.body) # 1
    THEN RaiseIn(tr2, "AssertionError", "incorrect number of rhs nodes", 0)
    ELSE IF tr2.body[1].type # node.annotation
    THEN syntax_error(tr2, node.lineno, "invalid assignment")
    ELSE [Unscoped(tr, tr2) EXCEPT !.globals =
              Append(@, Global(node.id, node.annotation, tr2.body[1]))]

\* _GlobalFinder.visit_AnnAssign; the redefinition of a global calls
\* syntax_error without its node.
gf_visit_AnnAssign(tr, node) ==
    IF Failed(tr) THEN tr
    ELSE IF Named(tr.globals, node.id)
    THEN RaiseIn(tr, "AttributeError", "'str' object has no attribute 'lineno'", 0)
    ELSE Bind(process_annotation(tr, node.annotation, node.lineno), LAMBDA tr1 :
         Bind(base_visit(Scoped(tr1), node.value, node.lineno), LAMBDA tr2 :
         GlobalChecked(tr, tr2, node)))

\* _GlobalFinder on a statement of the module.
gf_visit(tr, node) ==
    CASE node.t = "FunctionDef" -> gf_visit_FunctionDef(tr, node)
      [] node.t = "AnnAssign" -> gf_visit_AnnAssign(tr, node)
      [] node.t = "Assign" ->
             syntax_error(tr, node.lineno, "global assignment requires a type")
      [] node.t = "Expr" -> base_visit(tr, node.value, node.lineno)


(***************************************************************************)
(* The source files the command line is run on.                            *)
(*                                                                         *)
(*   def u() -> uint:                                                      *)
(*       return 7                                                          *)
(*   def v(a: void) -> void:                                               *)
(*       um.exit()                                                         *)
(*   def main() -> void:                                                   *)
(*       <one or two statements>                                           *)
(***************************************************************************)
PyU == PyFunctionDef("u", << >>, "uint", << PyReturn(PyNum(W(7)), 2) >>, 1)

PyV == PyFunctionDef("v", << PyArg("a", "void") >>, "void",
                     << PyExpr(PyUm("exit", << >>), 4) >>, 3)

PyPutchar == PyUm("putchar", << PyNum(W(65)) >>)

\* 1, "hi", um.putchar(65), um.len("hi"), um.alloc(2), u(), v(um.putchar(65)),
\* x, -um.putchar(65), 1 + um.putchar(65), 1 - 2, u(1)
PyExprs ==
    { PyNum(W(1)), PyStr(<< W(104), W(105) >>), PyPutchar,
      PyUm("len", << PyStr(<< W(104), W(105) >>) >>),
      PyUm("alloc", << PyNum(W(2)) >>),
      PyCall("u", << >>), PyCall("v", << PyPutchar >>), PyName("x"),
      PyUnaryOp("-", PyPutchar), PyBinOp(PyNum(W(1)), "+", PyPutchar),
      PyBinOp(PyNum(W(1)), "-", PyNum(W(2))), PyCall("u", << PyNum(W(1)) >>) }

\* x: T = e  /  e  /  return e  /  x: uint = 1; x = e  /  return
PyBodies ==
    { << PyAnnAssign("x", ann, e, 6) >> : ann \in {"uint", "array", "void", "int"},
                                           e \in PyExprs }
    \cup { << PyExpr(e, 6) >> : e \in PyExprs }
    \cup { << PyReturn(e, 6) >> : e \in PyExprs \cup {PyNone} }
    \cup { << PyAnnAssign("x", "uint", PyNum(W(1)), 6), PyAssign("x", e, 7) >> :
             e \in PyExprs }

TypingSources ==
    { [filename |-> "prog.uml",
       body |-> << PyU, PyV, PyFunctionDef("main", << >>, "void", b, 5) >>] :
        b \in PyBodies }

(***************************************************************************)
(*   def <first>() -> void:          line 1                                *)
(*       um.exit()                                                         *)
(*   ...                                                                   *)
(*   def <second>() -> void:         line <lineno>                         *)
(*       um.exit()                                                         *)
(***************************************************************************)
PyExit(name, lineno) ==
    PyFunctionDef(name, << >>, "void", << PyExpr(PyUm("exit", << >>), lineno + 1) >>,
                  lineno)

FileNames == {"a", "a.um", "prog.uml"}

SecondLines == {3, 4, 5, 9}

TwoFunctionSources ==
    { [filename |-> fname, body |-> << PyExit(first, 1), PyExit(second, lineno) >>] :
        fname \in FileNames, first \in {"f", "main"}, second \in {"f", "main"},
        lineno \in SecondLines }

\* x: uint = 5 / x: array = "hi" / x: uint = um.len("hi") / x: uint = y /
\* x = 5 / um.exit(), then main on line 2; and a module that is main alone.
GlobalSources ==
    { [filename |-> "prog.uml", body |-> << g, PyExit("main", 2) >>] :
        g \in { PyAnnAssign("x", "uint", PyNum(W(5)), 1),
                PyAnnAssign("x", "array", PyStr(<< W(104), W(105) >>), 1),
                PyAnnAssign("x", "uint", PyStr(<< W(104), W(105) >>), 1),
                PyAnnAssign("x", "uint", PyUm("len", << PyStr(<< W(104) >>) >>), 1),
                PyAnnAssign("x", "uint", PyName("y"), 1),
                PyAssign("x", PyNum(W(5)), 1),
                PyExpr(PyUm("exit", << >>), 1) } }
    \cup { [filename |-> "prog.uml", body |-> << PyExit("main", 1) >>] }

(***************************************************************************)
(*   def f(<args>) -> void:          line 1                                *)
(*       <body>                                                            *)
(*   def main() -> void:             line 5                                *)
(*       um.exit()                                                         *)
(* with a loop whose target is a new name, the name of an argument or the  *)
(* name of a local defined before it.                                      *)
(***************************************************************************)
PyPut(id, lineno) == PyExpr(PyUm("putchar", << PyName(id) >>), lineno)

LoopFunctions ==
    { PyFunctionDef("f", << PyArg("a", "array") >>, "void",
          << PyFor("c", PyName("a"), << PyPut("c", 3) >>, 2) >>, 1),
      PyFunctionDef("f", << PyArg("a", "array"), PyArg("n", "uint") >>, "void",
          << PyFor("n", PyName("a"), << PyPut("n", 3) >>, 2) >>, 1),
      PyFunctionDef("f", << PyArg("n", "uint"), PyArg("a", "array") >>, "void",
          << PyFor("n", PyName("a"), << >>, 2), PyPut("n", 3) >>, 1),
      PyFunctionDef("f", << PyArg("a", "array") >>, "void",
          << PyAnnAssign("c", "uint", PyNum(W(1)), 2),
             PyFor("c", PyName("a"), << PyPut("c", 4) >>, 3) >>, 1),
      PyFunctionDef("f", << PyArg("a", "array") >>, "void",
          << PyFor("c", PyName("a"),
                   << PyAnnAssign("d", "uint", PyName("c"), 3) >>, 2),
             PyPut("d", 4) >>, 1),
      PyFunctionDef("f", << PyArg("a", "array") >>, "void",
          << PyFor("c", PyName("a"),
                   << PyFor("e", PyName("a"), << PyPut("e", 4) >>, 3) >>, 2) >>, 1),
      PyFunctionDef("f", << PyArg("a", "array") >>, "void",
          << PyFor("a", PyName("a"), << >>, 2) >>, 1),
      PyFunctionDef("f", << PyArg("n", "uint") >>, "void",
          << PyFor("c", PyName("n"), << >>, 2) >>, 1),
      PyFunctionDef("f", << PyArg("n", "uint") >>, "void",
          << PyAnnAssign("c", "uint", PyName("n"), 2), PyPut("c", 3) >>, 1) }

LoopSources ==
    { [filename |-> "prog.uml", body |-> << f, PyExit("main", 5) >>] :
        f \in LoopFunctions }

Sources == TypingSources \cup TwoFunctionSources \cup GlobalSources \cup LoopSources

(***************************************************************************)
(* main() of __main__.py on the file source: parse is the _GlobalFinder    *)
(* over the module, then the _TopLevelTranslator over it; compile_ast and  *)
(* the write of the out file follow.  fe is [stage, i, tr]: where main()   *)
(* is ("find", "translate", "compile", "done", or "raised" once an         *)
(* exception left it), the statement the visitor is at, its translator.    *)
(* written is whether the out file was opened for writing.                 *)
(***************************************************************************)
FrontendAt(s, i, tr) == [kind |-> "main", stage |-> s, i |-> i, tr |-> tr]

\* parse: _GlobalFinder(globals_, functions, [], lines, filename), so its
\* self.lines is the file's name.
GlobalFinder(filename) == Translator(<< >>, << >>, Len(filename))

\* _TopLevelTranslator(globals_, functions, body, filename, lines)
TopLevelTranslator(tr) == Translator(tr.globals, tr.functions, 0 - 1)

\* One statement of the module under _GlobalFinder.visit(tree).
FindGlobals ==
    /\ fe.kind = "main" /\ fe.stage = "find"
    /\ fe' = Bind(gf_visit(fe.tr, source.body[fe.i]), LAMBDA tr :
             IF Failed(tr) THEN FrontendAt("raised", fe.i, tr)
             ELSE IF fe.i < Len(source.body) THEN FrontendAt("find", fe.i + 1, tr)
             ELSE FrontendAt("translate", 1, TopLevelTranslator(tr)))
    /\ UNCHANGED << source, written, rtvars, cgvars, utvars >>

\* One statement of the module under _TopLevelTranslator.visit(tree).
TranslateTopLevel ==
    /\ fe.kind = "main" /\ fe.stage = "translate"
    /\ fe' = Bind(tl_visit(fe.tr, source.body[fe.i]), LAMBDA tr :
             IF Failed(tr) THEN FrontendAt("raised", fe.i, tr)
             ELSE IF fe.i < Len(source.body) THEN FrontendAt("translate", fe.i + 1, tr)
             ELSE FrontendAt("compile", 0, tr))
    /\ UNCHANGED << source, written, rtvars, cgvars, utvars >>

\* bytecode = compile_ast(tree); open(out_path, 'wb'); write(bytecode)
CompileAndWrite ==
    /\ fe.kind = "main" /\ fe.stage = "compile"
    /\ \E image \in {compile_ast(fe.tr.body)} :
          IF image.err = ""
          THEN /\ fe' = FrontendAt("done", 0, fe.tr)
               /\ written' = TRUE
          ELSE /\ fe' = FrontendAt("raised", 0,
                            RaiseIn(fe.tr, "CompileError", image.err, 0))
               /\ written' = written
    /\ UNCHANGED << source, rtvars, cgvars, utvars >>

InitFrontend ==
    /\ source \in Sources
    /\ fe = FrontendAt("find", 1, GlobalFinder(source.filename))
    /\ written = FALSE
    /\ prog = 0 /\ phase = "off" /\ seg = 0 /\ um = NewMachine /\ curFn = ""
    /\ frames = << >> /\ lastRet = NoFrame /\ arrays = {} /\ event = NoEvent
    /\ decls = << >> /\ ctx = NewContext(<< >>) /\ at = 0
    /\ stage = "off" /\ stmt = NoneNode /\ nstmts = 0
    /\ UnitsIdle

NextFrontend == FindGlobals \/ TranslateTopLevel \/ CompileAndWrite

SpecFrontend == InitFrontend /\ [][NextFrontend]_vars


(***************************************************************************)
(* Part 7.  The properties.                                                *)
(***************************************************************************)

\* The array a register or word w names, and STACK[STACK_TOP - 1].
ArrayAt(image, w) == ArrayWords(image.bodies, um.heap[w[2] + 1])

StackTopWord(image) ==
    ArrayAt(image, um.regs[stack])[WSub(um.regs[stack_top], <<0, 1>>)[2] + 1]

\* C1: the value a caller reads from STACK[0] after a call to a non-void
\* function has returned is the value of the Return that function executed.
C1_ResultIsReturnValue ==
    (event.kind = "result_read" /\ lastRet.callee = event.name /\ lastRet.has_ret)
        => event.value = lastRet.retval

\* C2: when a called function has returned, LOCALS is the caller's LOCALS
\* array, still allocated, and STACK_TOP is what it was before the call
\* sequence began.
C2_CallerStateRestored ==
    event.kind = "returned"
        => /\ um.regs[locals] = lastRet.locals
           /\ IsArray(um, um.regs[locals])
           /\ um.regs[stack_top] = lastRet.stack_top

\* A call with arguments returns while another call is still in progress.
C2_Witness ==
    /\ event.kind = "returned" /\ lastRet.nargs > 0 /\ frames # << >>
    /\ um.regs[locals] = lastRet.locals /\ um.regs[stack_top] = lastRet.stack_top

\* The finger is at the first statement of a function that was called with
\* arguments.
EnteredWithArgs(image) ==
    /\ phase = "run" /\ um.status = "ok" /\ frames # << >>
    /\ Top(frames).callee = curFn /\ Top(frames).nargs > 0
    /\ \E mk \in MarksAt(image, curFn, um.pc) : mk.tag = "body" /\ mk.i > 0

\* LOCALS[0..k-1] are the k argument values of the call in progress and the
\* top of the stack is its resume address.
ArgumentsInLocals(image) ==
    /\ \A i \in 1..Top(frames).nargs :
          ArrayAt(image, um.regs[locals])[i] = Top(frames).args[i]
    /\ StackTopWord(image) = Top(frames).resume

\* C3: on entry to the body of a function called with k > 0 arguments,
\* LOCALS[i] is the value of the caller's i-th argument for i in 0..k-1 and
\* the resume address is on top of the stack again.
C3_ArgumentsInLocals ==
    phase = "run" =>
        (EnteredWithArgs(Compiled[prog]) => ArgumentsInLocals(Compiled[prog]))

\* add(inc(3), zero()) has been entered with 4 and 7.
C3_Witness ==
    /\ phase = "run" /\ curFn = "add" /\ EnteredWithArgs(Compiled[prog])
    /\ Top(frames).args = << W(4), W(7) >>
    /\ ArgumentsInLocals(Compiled[prog])

\* C4: the resume address a call pushes is the index, in the caller's code,
\* of the word after the call's LoadProgram, and that is where the caller
\* continues when the callee has returned.
C4_ResumeAfterLoadProgram ==
    /\ event.kind = "called" => Top(frames).resume = W(Top(frames).loadip + 1)
    /\ event.kind = "returned" => (curFn = lastRet.fn /\ um.pc = lastRet.loadip + 1)

\* f, called from main, has returned after calling g itself.
C4_Witness ==
    /\ prog = 2 /\ event.kind = "returned" /\ lastRet.callee = "f" /\ curFn = "main"
    /\ um.pc = lastRet.loadip + 1

\* C5: two distinct static allocations never have the same PIC index,
\* whatever the order of the declarations and of the lazy upserts.
C5_DistinctStaticAddresses ==
    \A i, j \in 1..Len(ctx.sa) :
        i # j => ctx.sa[i].index # ctx.sa[j].index

\* The array PIC_TABLE names, once the bootstrap has allocated it.
PicTable(image) == um.heap[um.regs[pic_table][2] + 1]

\* C6: the PIC_TABLE the bootstrap allocates has one slot for each static
\* allocation's index, so that the bootstrap can enter every allocation.
C6_PicTableHoldsEveryIndex ==
    (phase \in {"boot", "run", "done"} /\ seg >= 1 /\ event.kind = "header"
        /\ um.status = "ok")
        => \A j \in 1..Len(Compiled[prog].sa) :
              Compiled[prog].sa[j].index
                  < ArrayLen(Compiled[prog].bodies, PicTable(Compiled[prog]))

\* The words static allocation j must hold: a function's native code from
\* slot 0, a literal array's element count and then its elements.
ExpectedWords(image, j) ==
    IF image.sa[j].key[1] = "FunctionDef"
    THEN BodyOf(image.bodies, image.sa[j].key).raw
    ELSE << W(Len(image.sa[j].node.value)) >> \o image.sa[j].node.value

PicSlotHolds(image, j) ==
    /\ InBounds(image.bodies, um, um.regs[pic_table], W(image.sa[j].index))
    /\ IsArray(um, ArrayAt(image, um.regs[pic_table])[image.sa[j].index + 1])
    /\ ArrayAt(image, ArrayAt(image, um.regs[pic_table])[image.sa[j].index + 1])
           = ExpectedWords(image, j)

\* C7: when the bootstrap has run, PIC_TABLE[i] is the handle of an array
\* with the contents of the static allocation whose index is i.
C7_PicTableContents ==
    (event.kind = "booted" /\ um.status = "ok")
        => \A j \in 1..Len(Compiled[prog].sa) : PicSlotHolds(Compiled[prog], j)

\* C8: no accepted tree needs more than the four scratch registers:
\* occupy() never fails.
C8_OccupyNeverFails ==
    /\ ctx.peak <= 4
    /\ ctx.err # "ValueError: failed to allocate a new register"

\* C9: between two statements no scratch register is occupied and the four
\* of them are in the pool.
C9_PoolFullAtBoundary ==
    (stage = "body" /\ ctx.err = "")
        => /\ ctx.given = << >>
           /\ Len(ctx.regs) = 4
           /\ { ctx.regs[i] : i \in 1..Len(ctx.regs) } = {ax, bx, cx, dx}

\* A statement that had all four registers occupied at once is compiled.
C9_Witness ==
    /\ stage = "body" /\ ctx.err = "" /\ nstmts > 0 /\ ctx.peak = 4
    /\ ctx.given = << >> /\ Len(ctx.regs) = 4

\* C10: every array value has its element count in slot 0, before its
\* elements: a literal array and the result of alloc(n) alike.
C10_CountInSlotZero ==
    \A a \in arrays :
        IsArray(um, a.handle)
            => /\ ArrayLen(Compiled[prog].bodies, um.heap[a.handle[2] + 1]) = a.count + 1
               /\ ArrayWord(Compiled[prog].bodies, um.heap[a.handle[2] + 1], 0) = W(a.count)

\* a op b modulo 2^32; a - b is a + (~b + 1).
BinOpValue(op, a, b) ==
    IF op = "+" THEN WAdd(a, b)
    ELSE IF op = "-" THEN WAdd(a, WNeg(b))
    ELSE IF op = "*" THEN WMul(a, b)
    ELSE WDiv(a, b)

\* C11: for op in {+, -, *, /} and uint operands a, b (b # 0 for /), the
\* code emitted for BinOp(op, a, b) compiles and leaves a op b modulo 2^32 in
\* the register _binop returns.
C11_BinOpComputes ==
    outcome.kind = "BinOp"
        => /\ outcome.err = "" /\ outcome.status = "ok"
           /\ outcome.value = BinOpValue(probe.op, probe.a, probe.b)

(***************************************************************************)
(* The expression positions of the tree parse returns: an operand, a call  *)
(* argument, a subscript's array and index, the right-hand side of an      *)
(* assignment and a returned value.                                        *)
(***************************************************************************)
RECURSIVE ValueTyped(_)
ValueTyped(e) ==
    /\ e.type \in {"uint", "array"}
    /\ CASE e.k \in {"Call", "BuiltinCall"} ->
                \A j \in 1..Len(e.args) : ValueTyped(e.args[j])
         [] e.k = "BinOp" -> ValueTyped(e.lhs) /\ ValueTyped(e.rhs)
         [] e.k = "UnOp" -> ValueTyped(e.operand)
         [] e.k = "Subscript" -> ValueTyped(e.array) /\ ValueTyped(e.index)
         [] OTHER -> TRUE

RECURSIVE StatementTyped(_)
StatementTyped(s) ==
    CASE s.k = "Assignment" -> ValueTyped(s.rhs)
      [] s.k = "For" ->
             /\ ValueTyped(s.iterator)
             /\ \A j \in 1..Len(s.body) : StatementTyped(s.body[j])
      [] s.k = "Return" -> ValueTyped(s.value)
      [] s.k \in {"Call", "BuiltinCall"} ->
             \A j \in 1..Len(s.args) : ValueTyped(s.args[j])
      [] OTHER -> ValueTyped(s)

TreeTyped(tree) ==
    \A j \in 1..Len(tree) :
        tree[j].k = "FunctionDef"
            => \A n \in 1..Len(tree[j].body) : StatementTyped(tree[j].body[n])

Parsed == fe.kind = "main" /\ fe.stage \in {"compile", "done"}

\* C12: every node of the tree parse returns that stands in an expression
\* position (operand, call argument, right-hand side of an assignment,
\* returned value) has type uint or array, never void, whatever the
\* annotations of the locals, the arguments and the return types are.
C12_ExpressionsAreValues == Parsed => TreeTyped(fe.tr.body)

\* The module of the source defines two functions with the same name; the
\* second of them is statement j.
SecondDefinition(j) ==
    /\ source.body[j].t = "FunctionDef"
    /\ \E i \in 1..(j - 1) :
          source.body[i].t = "FunctionDef" /\ source.body[i].name = source.body[j].name

\* C17: a module that defines two functions with the same name is rejected
\* with a diagnostic located at the second definition (a SyntaxError that
\* carries its line), and no out file is written.
C17_DuplicateFunctionRejected ==
    \A j \in 1..Len(source.body) :
        SecondDefinition(j)
            => /\ ~written
               /\ fe.stage \in {"find", "raised"}
               /\ fe.stage = "raised"
                     => /\ fe.tr.err.exc = "SyntaxError"
                        /\ fe.tr.err.lineno = source.body[j].lineno

\* The operands of a native instruction are register numbers, and the
\* value of an Orthography fits its 25 bits.
OperandsFit(instr) ==
    IF instr.opcode = 13
    THEN instr.register \in 0..7 /\ instr.value \in 0..OrthMax
    ELSE instr.a \in 0..7 /\ instr.b \in 0..7 /\ instr.c \in 0..7

\* The word with the opcode in bits 28..31 and A, B, C in bits 6..8, 3..5
\* and 0..2 (an Orthography: the register in bits 25..27, the value in bits
\* 0..24), every other bit zero.
LaidOut(instr) ==
    IF instr.opcode = 13
    THEN << 8 * instr.opcode + instr.register, instr.value >>
    ELSE << 8 * instr.opcode, 64 * instr.a + 8 * instr.b + instr.c >>

\* C13: the word of an encoded instruction has the opcode in bits 28..31;
\* for the opcodes 0..12 A is in bits 6..8, B in bits 3..5 and C in bits
\* 0..2; for Orthography the register is in bits 25..27 and the value in
\* bits 0..24; every other bit is zero; the word is serialized as four
\* bytes, most significant first.
C13_WordLayout ==
    (outcome.kind = "native" /\ OperandsFit(probe.instr))
        => /\ outcome.err = ""
           /\ outcome.word = LaidOut(probe.instr)
           /\ outcome.word[1] = outcome.bytes[1] \div 2
           /\ outcome.word[2] = (((outcome.bytes[1] % 2) * 256 + outcome.bytes[2]) * 256
                                    + outcome.bytes[3]) * 256 + outcome.bytes[4]
           /\ \A j \in 1..4 : outcome.bytes[j] \in 0..255

C13_Witness ==
    /\ outcome.kind = "native" /\ OperandsFit(probe.instr)
    /\ probe.instr = Orthography(7, OrthMax)
    /\ outcome.bytes = << 223, 255, 255, 255 >>

\* C15: decoding the bytes of an encoded instruction gives the instruction
\* back, for all 14 opcodes and all operands the constructors accept.
C15_RoundTrip ==
    outcome.kind = "native" => outcome.err = "" /\ outcome.decoded = probe.instr

\* C14: every Orthography that reaches serialization has a value in
\* 0..2^25-1 and every other native instruction has a, b, c in 0..7, also
\* where the operand was a placeholder not yet filled in when the
\* instruction was constructed, and for the operands the jump
\* pseudo-instructions pass to the native instructions.
C14_OperandsInRange ==
    outcome.kind \in {"jump", "placeholder"}
        => \A j \in 1..Len(outcome.instrs) : OperandsFit(outcome.instrs[j])

\* The chunks of an expansion: instrs[2 j] is Orthography(acc, chunk) and
\* instrs[2 j + 1] is Addition(register, register, acc), for one acc that
\* is not the register; every chunk but the last is 2^25 - 1.
ChunkPairs(instrs, register) ==
    /\ Len(instrs) % 2 = 1 /\ Len(instrs) >= 3
    /\ \E acc \in (0..7) \ {register} :
          \A j \in 1..((Len(instrs) - 1) \div 2) :
              /\ instrs[2 * j].opcode = 13
              /\ instrs[2 * j].register = acc
              /\ instrs[2 * j].value \in 1..OrthMax
              /\ 2 * j + 1 < Len(instrs) => instrs[2 * j].value = OrthMax
              /\ instrs[2 * j + 1] = Addition(register, register, acc)

\* C16: for every 32-bit value V, executing the native instructions of
\* Immediate(R, V) leaves V in R.  They are a single Orthography(R, V) if
\* V <= 2^25 - 1; otherwise Orthography(R, 2^25 - 1) followed by pairs
\* Orthography(acc, chunk); Addition(R, R, acc).
C16_ImmediateLoadsValue ==
    outcome.kind = "Immediate"
        => /\ outcome.status = "ok"
           /\ outcome.regs[probe.register] = probe.value
           /\ outcome.regs = ExecImmediate(probe.register, probe.value, NewMachine).regs
           /\ IF WLeq(probe.value, <<0, OrthMax>>)
              THEN outcome.instrs = << Orthography(probe.register, probe.value[2]) >>
              ELSE /\ outcome.instrs[1] = Orthography(probe.register, OrthMax)
                   /\ ChunkPairs(outcome.instrs, probe.register)

C16_Witness ==
    /\ outcome.kind = "Immediate"
    /\ probe.value = <<127, OrthMax>> /\ probe.register = bx
    /\ Len(outcome.instrs) = 257
    /\ outcome.regs[bx] = <<127, OrthMax>>

HasMain(nodes) ==
    \E j \in 1..Len(nodes) : nodes[j].k = "FunctionDef" /\ nodes[j].name = "main"

\* The last instruction of the bootstrap of a compiled image.
LastOfBootstrap(image) ==
    image.segs[Len(image.segs)][Len(image.segs[Len(image.segs)])]

\* A module without main: compile_ast raises, no bytes are returned.
NoMainRejected(image) ==
    /\ image.err = "SyntaxError: no main function"
    /\ image.segs = << >>
    /\ phase = "rejected"

\* The bootstrap has just executed its last instruction.
MainLoaded(image) ==
    /\ seg = Len(image.segs)
    /\ LastOfBootstrap(image).opcode = 12
    /\ um.status = "ok" => curFn = "main" /\ um.pc = 0

\* C18: compiling a module without a function main fails with the error
\* 'no main function' and no bytes are produced; when main exists, the last
\* instruction of the bootstrap is the LoadProgram of main's code array at
\* offset 0.
C18_MainOrRejected ==
    /\ ~HasMain(Programs[prog]) => NoMainRejected(Compiled[prog])
    /\ (HasMain(Programs[prog]) /\ event.kind = "booted") => MainLoaded(Compiled[prog])

C18_Witness == ~HasMain(Programs[prog]) /\ phase = "rejected" /\ um = NewMachine

\* The place of the epilogue in the code of function fn.
EpilogueIp(image, fn) ==
    (CHOOSE j \in 1..Len(MarksOf(image, fn)) :
        MarksOf(image, fn)[j].tag = "epilogue")

\* The running function has executed a Return: the finger is in its
\* epilogue and STACK[0] holds the value returned.
InEpilogue(image) ==
    /\ um.pc >= MarksOf(image, curFn)[EpilogueIp(image, curFn)].ip
    /\ ArrayAt(image, um.regs[stack])[1] = Top(frames).retval

\* C19: when a Return executes, at any position of a function body,
\* STACK[0] is set to its value and control proceeds to the epilogue: no
\* statement that follows it in the body executes.
C19_ReturnLeavesBody ==
    (phase = "run" /\ frames # << >> /\ Top(frames).callee = curFn /\ Top(frames).has_ret)
        => InEpilogue(Compiled[prog])

\* C20: the values the caller holds in occupied scratch registers when a
\* call begins are in these registers when the callee has returned.
C20_HeldRegistersSurviveCall ==
    event.kind = "returned"
        => \A r \in DOMAIN lastRet.held : um.regs[r] = lastRet.held[r]

\* Bit i of a natural.
NatBit(v, i) == (v \div Pow2(i)) % 2

\* C28: set_bits(n, start, count, value) returns n with the bits
\* [start, start + count) set to value and every bit outside that range
\* equal to the bit of n, for every value, also one that does not fit in
\* count bits.
C28_SetBitsFrame ==
    outcome.kind = "set_bits"
        => \A i \in 0..31 :
              WBit(outcome.word, i) =
                 IF i >= probe.start /\ i < probe.start + probe.count
                 THEN NatBit(probe.value, i - probe.start)
                 ELSE WBit(probe.n, i)

\* The integer the expression at place i of a chain stands for, once p is
\* resolved: p's value for place 1, the operand's integer plus the offset
\* for the others.
RECURSIVE Resolved(_, _)
Resolved(pr, i) ==
    IF i = 1 THEN pr.fill * pr.multiply + pr.add
    ELSE Resolved(pr, pr.ops[i - 1].on) + pr.ops[i - 1].by

\* C26: an expression p + a or p - b, and any chain of them, formed before
\* the placeholder p is resolved evaluates, once p is resolved, to the same
\* integer as the same arithmetic on p's resolved value, also for a p made
\* with multiply # 1 or add # 0.
C26_PlaceholderArithmetic ==
    outcome.kind = "PlaceholderInt"
        => \A i \in 1..Len(outcome.values) : outcome.values[i] = Resolved(probe, i)

\* C27: the native sequence of JumpIfFalse(cond, ip, current_ip, tmp) moves
\* the finger to ip when the condition register is 0 and to the word after
\* the sequence when it is not; JumpIfTrue jumps to ip when the condition
\* register is not 0 and falls through when it is 0.
C27_ConditionalJump ==
    outcome.kind = "RunJump"
        => /\ outcome.status = "ok"
           /\ outcome.pc =
                 IF (probe.jump = "JumpIfTrue") = (probe.cond # 0)
                 THEN probe.ip
                 ELSE probe.current_ip + outcome.length

\* C22: the accumulator of a large Immediate is a scratch register of its
\* own: the expansion overwrites no register that another holder has
\* occupied.
C22_AccumulatorIsScratch ==
    outcome.kind = "Sum" => outcome.overwritten = {}

Occurrences(seq, x) == Cardinality({ j \in 1..Len(seq) : seq[j] = x })

\* C23: whatever the order of the releases, the allocator's list of
\* occupation sites holds exactly the sites of the handles that were
\* occupied and not yet released.
C23_GivenOutIsOutstanding ==
    outcome.kind = "Occupy" =>
        \A site \in 0..600 :
            Occurrences(outcome.given, site) = Occurrences(outcome.handles, site)

\* C21: reading a[ix] yields slot ix + 1 of a and leaves a as it was;
\* a[ix] = v changes slot ix + 1 and no other slot, never the length word
\* at slot 0; this for an index folded at compile time (a literal, a uint
\* global) and for one incremented at run time alike.
C21_SubscriptSlot ==
    outcome.kind = "Element" =>
        /\ outcome.err = "" /\ outcome.status = "ok"
        /\ probe.access = "read" =>
              /\ outcome.value = Elements[probe.ix + 2]
              /\ outcome.words = Elements
        /\ probe.access = "write" =>
              outcome.words = [Elements EXCEPT ![probe.ix + 2] = <<0, 77>>]

\* The bootstrap has set STACK_TOP up.
StackIsSetUp == (phase = "boot" /\ seg >= 1) \/ phase \in {"run", "done"}

\* C24: in every run-time state, from the bootstrap on, STACK_TOP >= 1: no
\* Push or Pop reaches STACK[0], the slot of the return value.
C24_StackTopAtLeastOne ==
    StackIsSetUp => WLeq(<<0, 1>>, um.regs[stack_top])

\* The Local and Argument nodes a node refers to.
RECURSIVE Referenced(_)
Referenced(node) ==
    CASE node.k \in {"Local", "Argument"} -> {node}
      [] node.k = "Assignment" -> Referenced(node.lhs) \cup Referenced(node.rhs)
      [] node.k = "Return" -> Referenced(node.value)
      [] node.k \in {"Call", "BuiltinCall"} ->
             UNION { Referenced(node.args[j]) : j \in 1..Len(node.args) }
      [] node.k = "BinOp" -> Referenced(node.lhs) \cup Referenced(node.rhs)
      [] node.k = "UnOp" -> Referenced(node.operand)
      [] node.k = "Subscript" -> Referenced(node.array) \cup Referenced(node.index)
      [] node.k = "For" ->
             {node.target} \cup Referenced(node.iterator)
                 \cup UNION { Referenced(node.body[j]) : j \in 1..Len(node.body) }
      [] OTHER -> {}

\* The LOCALS map _compile_function_def builds for a function of the tree.
LocalsMap(tree, node) ==
    function_context(node,
        NewContext(static_allocations_without_literal_arrays(tree, 0, << >>))).locals

SlotsOf(map, node) == { j \in 1..Len(map) : map[j] = NodeKey(node) }

SlotsCoverBody(tree, node) ==
    /\ Len(LocalsMap(tree, node)) = Len(node.args) + Len(node.locals)
    /\ \A j \in 1..Len(node.args) :
          SlotsOf(LocalsMap(tree, node), node.args[j]) = {j}
    /\ \A j \in 1..Len(node.locals) :
          SlotsOf(LocalsMap(tree, node), node.locals[j]) = {Len(node.args) + j}
    /\ \A s \in 1..Len(node.body) :
          \A ref \in Referenced(node.body[s]) :
              Cardinality(SlotsOf(LocalsMap(tree, node), ref)) = 1

\* C25: for every FunctionDef the frontend produces, every Local or
\* Argument its body refers to has exactly one slot in the LOCALS map, the
\* arguments at 0..|args|-1, the locals after them in the order of
\* FunctionDef.locals, every slot below |args| + |locals|; a loop target
\* that reuses the name of an argument or of a local included.
C25_EveryReferenceHasSlot ==
    Parsed =>
        \A j \in 1..Len(fe.tr.body) :
            fe.tr.body[j].k = "FunctionDef" => SlotsCoverBody(fe.tr.body, fe.tr.body[j])

====
